---- MODULE Spec2Model ----
(***************************************************************************)
(* vozctl: resolution of a speech transcript into executable actions.      *)
(*                                                                         *)
(* Text is a sequence of one-character strings, so that normalisation,     *)
(* splitting and the regular expressions of the registry act on            *)
(* characters as they do in the Python source.                             *)
(***************************************************************************)
EXTENDS Integers, Sequences, FiniteSets, TLC

\* ------------------------------------------------------------------------
\* Characters and text helpers (Python str primitives)
\* ------------------------------------------------------------------------

LowerAlpha ==
  <<"a","b","c","d","e","f","g","h","i","j","k","l","m",
    "n","o","p","q","r","s","t","u","v","w","x","y","z">>

UpperAlpha ==
  <<"A","B","C","D","E","F","G","H","I","J","K","L","M",
    "N","O","P","Q","R","S","T","U","V","W","X","Y","Z">>

DigitChars == {"0","1","2","3","4","5","6","7","8","9"}

LowerSet == {LowerAlpha[i] : i \in 1..26}

UpperSet == {UpperAlpha[i] : i \in 1..26}

\* \s of the re module, restricted to the whitespace the model's inputs use
SpaceChars == {" ", "\t"}

\* \w of the re module over ASCII: letters, digits and the underscore
WordChars == LowerSet \cup UpperSet \cup DigitChars \cup {"_"}

ToLowerMap == [c \in UpperSet |-> LowerAlpha[CHOOSE i \in 1..26 : UpperAlpha[i] = c]]

ToUpperMap == [c \in LowerSet |-> UpperAlpha[CHOOSE i \in 1..26 : LowerAlpha[i] = c]]

LowerChar(c) == IF c \in UpperSet THEN ToLowerMap[c] ELSE c

UpperChar(c) == IF c \in LowerSet THEN ToUpperMap[c] ELSE c

\* str.lower()
Lower(s) == [i \in 1..Len(s) |-> LowerChar(s[i])]

\* str.upper()
Upper(s) == [i \in 1..Len(s) |-> UpperChar(s[i])]

\* s[i:] with a 1-based first index
Drop(s, i) == SubSeq(s, i, Len(s))

\* number of leading whitespace characters of s
RECURSIVE LeadingSpaces(_)
LeadingSpaces(s) ==
  IF s = <<>> \/ Head(s) \notin SpaceChars THEN 0 ELSE 1 + LeadingSpaces(Tail(s))

\* number of trailing whitespace characters of s
RECURSIVE TrailingSpaces(_)
TrailingSpaces(s) ==
  IF s = <<>> \/ s[Len(s)] \notin SpaceChars THEN 0
  ELSE 1 + TrailingSpaces(SubSeq(s, 1, Len(s) - 1))

\* str.strip()
Strip(s) ==
  LET a == LeadingSpaces(s)
  IN  IF a = Len(s) THEN <<>> ELSE SubSeq(s, a + 1, Len(s) - TrailingSpaces(s))

\* str.split(): the maximal runs of non-whitespace characters, in order
RECURSIVE SplitWords(_)
SplitWords(s) ==
  LET t == Drop(s, LeadingSpaces(s) + 1)
  IN  IF t = <<>> THEN <<>>
      ELSE LET n == CHOOSE k \in 1..Len(t) :
                      /\ \A j \in 1..k : t[j] \notin SpaceChars
                      /\ (k = Len(t) \/ t[k + 1] \in SpaceChars)
           IN  <<SubSeq(t, 1, n)>> \o SplitWords(Drop(t, n + 1))

\* sep.join(parts)
RECURSIVE Join(_, _)
Join(parts, sep) ==
  IF parts = <<>> THEN <<>>
  ELSE IF Len(parts) = 1 THEN parts[1]
  ELSE parts[1] \o sep \o Join(Tail(parts), sep)

\* s.startswith(p)
StartsWith(s, p) == Len(p) <= Len(s) /\ SubSeq(s, 1, Len(p)) = p

\* the elements of a sequence
Range(q) == {q[i] : i \in 1..Len(q)}

\* ------------------------------------------------------------------------
\* commands._normalize
\* ------------------------------------------------------------------------

\* re.sub(r"\s+", " ", s): every run of whitespace becomes one space
RECURSIVE CollapseSpaces(_)
CollapseSpaces(s) ==
  IF s = <<>> THEN <<>>
  ELSE IF Head(s) \in SpaceChars
       THEN <<" ">> \o CollapseSpaces(Drop(s, LeadingSpaces(s) + 1))
       ELSE <<Head(s)>> \o CollapseSpaces(Tail(s))

KeepWordOrSpace(c) == c \in WordChars \/ c \in SpaceChars

\* lower-case and strip, then remove [^\w\s], then collapse whitespace;
\* the result is not stripped again
_normalize(text) ==
  CollapseSpaces(SelectSeq(Strip(Lower(text)), KeepWordOrSpace))

\* ------------------------------------------------------------------------
\* Regular expressions (re.compile / Pattern.match), as a backtracking
\* matcher over a syntax tree.  Match lists every way the node can match at
\* position i, in the priority order of Python's matcher (greedy first,
\* leftmost alternative first); the head of the list is what re returns.
\* ------------------------------------------------------------------------

Lit(s)       == [t |-> "lit", s |-> s]
\* cls+ (greedy)
Plus(cls)    == [t |-> "plus", cls |-> cls]
\* cls* (greedy)
Star(cls)    == [t |-> "star", cls |-> cls]
\* cls+? (lazy)
LazyPlus(cls) == [t |-> "lazyplus", cls |-> cls]
\* (?: p )?
Opt(p)       == [t |-> "opt", p |-> p]
\* p1 | p2 | ...
Alt(ps)      == [t |-> "alt", ps |-> ps]
\* p1 p2 ...
Cat(ps)      == [t |-> "cat", ps |-> ps]
\* (?P<name> p )
Grp(name, p) == [t |-> "grp", name |-> name, p |-> p]
\* $
Eos          == [t |-> "eos"]

\* character classes: \w, \d, \s and . (any character but a newline)
InClass(c, cls) ==
  CASE cls = "w" -> c \in WordChars
    [] cls = "d" -> c \in DigitChars
    [] cls = "s" -> c \in SpaceChars
    [] cls = "any" -> c # "\n"

\* length of the maximal run of class characters of s starting at i
RECURSIVE RunLen(_, _, _)
RunLen(s, i, cls) ==
  IF i > Len(s) \/ ~InClass(s[i], cls) THEN 0 ELSE 1 + RunLen(s, i + 1, cls)

\* the literal l stands at position i of s (ic: re.IGNORECASE)
LitAt(s, i, l, ic) ==
  /\ i + Len(l) - 1 <= Len(s)
  /\ \A k \in 1..Len(l) :
        IF ic THEN LowerChar(s[i + k - 1]) = LowerChar(l[k]) ELSE s[i + k - 1] = l[k]

\* a named group that took part in the match holds its text; one that did
\* not is None (matched = FALSE)
Capture(caps, name, text) ==
  [k \in 1..Len(caps) |->
     IF caps[k].name = name THEN [name |-> name, matched |-> TRUE, val |-> text]
     ELSE caps[k]]

RECURSIVE Match(_, _, _, _, _)
RECURSIVE MatchCat(_, _, _, _, _)
RECURSIVE MatchAlt(_, _, _, _, _, _)
RECURSIVE FlatMatch(_, _, _, _)

Match(p, s, i, caps, ic) ==
  CASE p.t = "lit" ->
         IF LitAt(s, i, p.s, ic) THEN <<[i |-> i + Len(p.s), caps |-> caps]>> ELSE <<>>
    [] p.t = "plus" ->
         LET n == RunLen(s, i, p.cls)
         IN  [k \in 1..n |-> [i |-> i + (n - k + 1), caps |-> caps]]
    [] p.t = "star" ->
         LET n == RunLen(s, i, p.cls)
         IN  [k \in 1..(n + 1) |-> [i |-> i + (n - k + 1), caps |-> caps]]
    [] p.t = "lazyplus" ->
         LET n == RunLen(s, i, p.cls)
         IN  [k \in 1..n |-> [i |-> i + k, caps |-> caps]]
    [] p.t = "opt" ->
         Match(p.p, s, i, caps, ic) \o <<[i |-> i, caps |-> caps]>>
    [] p.t = "alt" -> MatchAlt(p.ps, 1, s, i, caps, ic)
    [] p.t = "cat" -> MatchCat(p.ps, 1, s, <<[i |-> i, caps |-> caps]>>, ic)
    [] p.t = "grp" ->
         LET rs == Match(p.p, s, i, caps, ic)
         IN  [k \in 1..Len(rs) |->
                [i |-> rs[k].i,
                 caps |-> Capture(rs[k].caps, p.name, SubSeq(s, i, rs[k].i - 1))]]
    [] p.t = "eos" ->
         IF i = Len(s) + 1 THEN <<[i |-> i, caps |-> caps]>> ELSE <<>>

MatchAlt(ps, k, s, i, caps, ic) ==
  IF k > Len(ps) THEN <<>>
  ELSE Match(ps[k], s, i, caps, ic) \o MatchAlt(ps, k + 1, s, i, caps, ic)

\* every continuation of every partial match in rs by the node p
FlatMatch(p, s, rs, ic) ==
  IF rs = <<>> THEN <<>>
  ELSE Match(p, s, rs[1].i, rs[1].caps, ic) \o FlatMatch(p, s, Tail(rs), ic)

MatchCat(ps, k, s, rs, ic) ==
  IF k > Len(ps) \/ rs = <<>> THEN rs
  ELSE MatchCat(ps, k + 1, s, FlatMatch(ps[k], s, rs, ic), ic)

NoCaps(groups) == [k \in 1..Len(groups) |-> [name |-> groups[k], matched |-> FALSE, val |-> <<>>]]

\* Pattern.match(s): the pattern must match at the start of s (and need not
\* reach its end).  <<>> when there is no match, else <<groupdict>>
ReMatch(pat, s, ic) ==
  LET rs == Match(pat.re, s, 1, NoCaps(pat.groups), ic)
  IN  IF rs = <<>> THEN <<>> ELSE <<rs[1].caps>>

\* ------------------------------------------------------------------------
\* Rule registry (commands.py): exact phrases, in registration order
\* ------------------------------------------------------------------------

\* the @exact(...) decorators of commands.py, in source order
ExactRegistrations ==
  <<
    [key |-> <<"c","o","m","m","a","n","d"," ","m","o","d","e">>, fn |-> "cmd_command_mode", safe |-> TRUE],
    [key |-> <<"c","o","m","m","a","n","d","s">>, fn |-> "cmd_commands", safe |-> TRUE],
    [key |-> <<"c","o","m","m","a","n","d">>, fn |-> "cmd_command", safe |-> TRUE],
    [key |-> <<"d","i","c","t","a","t","i","o","n"," ","m","o","d","e">>, fn |-> "cmd_dictation_mode", safe |-> TRUE],
    [key |-> <<"d","i","c","t","a","t","i","o","n">>, fn |-> "cmd_dictation", safe |-> TRUE],
    [key |-> <<"d","i","c","t","a","t","e">>, fn |-> "cmd_dictate", safe |-> TRUE],
    [key |-> <<"t","y","p","i","n","g">>, fn |-> "cmd_typing", safe |-> TRUE],
    [key |-> <<"t","y","p","i","n","g"," ","m","o","d","e">>, fn |-> "cmd_typing_mode", safe |-> TRUE],
    [key |-> <<"s","c","r","a","t","c","h"," ","t","h","a","t">>, fn |-> "cmd_scratch", safe |-> TRUE],
    [key |-> <<"s","c","r","a","t","c","h">>, fn |-> "cmd_scratch_alt", safe |-> TRUE],
    [key |-> <<"c","a","n","c","e","l">>, fn |-> "cmd_cancel", safe |-> FALSE],
    [key |-> <<"c","o","n","t","r","o","l"," ","c">>, fn |-> "cmd_control_c", safe |-> FALSE],
    [key |-> <<"c","l","e","a","r">>, fn |-> "cmd_clear", safe |-> FALSE],
    [key |-> <<"e","x","i","t">>, fn |-> "cmd_exit", safe |-> FALSE],
    [key |-> <<"s","u","s","p","e","n","d">>, fn |-> "cmd_suspend", safe |-> FALSE],
    [key |-> <<"f","i","n","d">>, fn |-> "cmd_find", safe |-> FALSE],
    [key |-> <<"f","i","n","d"," ","a","l","l">>, fn |-> "cmd_find_all", safe |-> FALSE],
    [key |-> <<"g","o"," ","t","o"," ","f","i","l","e">>, fn |-> "cmd_goto_file", safe |-> FALSE],
    [key |-> <<"c","o","m","m","e","n","t">>, fn |-> "cmd_comment", safe |-> FALSE],
    [key |-> <<"n","e","w"," ","t","a","b">>, fn |-> "cmd_new_tab", safe |-> FALSE],
    [key |-> <<"u","n","d","o">>, fn |-> "cmd_undo", safe |-> FALSE],
    [key |-> <<"r","e","d","o">>, fn |-> "cmd_redo", safe |-> FALSE],
    [key |-> <<"c","o","p","y">>, fn |-> "cmd_copy", safe |-> FALSE],
    [key |-> <<"c","u","t">>, fn |-> "cmd_cut", safe |-> FALSE],
    [key |-> <<"p","a","s","t","e">>, fn |-> "cmd_paste", safe |-> FALSE],
    [key |-> <<"s","a","v","e">>, fn |-> "cmd_save", safe |-> FALSE],
    [key |-> <<"s","e","l","e","c","t"," ","a","l","l">>, fn |-> "cmd_select_all", safe |-> FALSE],
    [key |-> <<"s","e","l","e","c","t"," ","l","i","n","e">>, fn |-> "cmd_select_line", safe |-> FALSE],
    [key |-> <<"n","e","w"," ","l","i","n","e">>, fn |-> "cmd_new_line", safe |-> FALSE],
    [key |-> <<"s","l","a","p">>, fn |-> "cmd_slap", safe |-> FALSE],
    [key |-> <<"e","n","t","e","r">>, fn |-> "cmd_enter", safe |-> FALSE],
    [key |-> <<"s","t","o","m","p">>, fn |-> "cmd_stomp", safe |-> FALSE],
    [key |-> <<"n","e","w","l","i","n","e">>, fn |-> "cmd_newline", safe |-> FALSE],
    [key |-> <<"g","o"," ","u","p">>, fn |-> "cmd_up", safe |-> FALSE],
    [key |-> <<"g","o"," ","d","o","w","n">>, fn |-> "cmd_down", safe |-> FALSE],
    [key |-> <<"g","o"," ","l","e","f","t">>, fn |-> "cmd_left", safe |-> FALSE],
    [key |-> <<"g","o"," ","r","i","g","h","t">>, fn |-> "cmd_right", safe |-> FALSE],
    [key |-> <<"p","a","g","e"," ","u","p">>, fn |-> "cmd_page_up", safe |-> FALSE],
    [key |-> <<"p","a","g","e"," ","d","o","w","n">>, fn |-> "cmd_page_down", safe |-> FALSE],
    [key |-> <<"g","o"," ","h","o","m","e">>, fn |-> "cmd_home", safe |-> FALSE],
    [key |-> <<"h","e","a","d">>, fn |-> "cmd_head", safe |-> FALSE],
    [key |-> <<"g","o"," ","e","n","d">>, fn |-> "cmd_end", safe |-> FALSE],
    [key |-> <<"t","a","i","l">>, fn |-> "cmd_tail", safe |-> FALSE],
    [key |-> <<"d","e","l","e","t","e"," ","t","h","a","t">>, fn |-> "cmd_delete", safe |-> FALSE],
    [key |-> <<"d","e","l","e","t","e">>, fn |-> "cmd_delete_single", safe |-> FALSE],
    [key |-> <<"b","a","c","k","s","p","a","c","e">>, fn |-> "cmd_backspace", safe |-> FALSE],
    [key |-> <<"d","e","l","e","t","e"," ","w","o","r","d">>, fn |-> "cmd_delete_word", safe |-> FALSE],
    [key |-> <<"o","p","t","i","o","n"," ","d","e","l","e","t","e">>, fn |-> "cmd_option_delete", safe |-> FALSE],
    [key |-> <<"t","a","b">>, fn |-> "cmd_tab", safe |-> FALSE],
    [key |-> <<"e","s","c","a","p","e">>, fn |-> "cmd_escape", safe |-> FALSE],
    [key |-> <<"s","p","a","c","e">>, fn |-> "cmd_space", safe |-> FALSE],
    [key |-> <<"n","e","x","t"," ","t","a","b">>, fn |-> "cmd_next_tab", safe |-> FALSE],
    [key |-> <<"p","r","e","v","i","o","u","s"," ","t","a","b">>, fn |-> "cmd_prev_tab", safe |-> FALSE],
    [key |-> <<"c","l","o","s","e"," ","t","a","b">>, fn |-> "cmd_close_tab", safe |-> FALSE],
    [key |-> <<"n","e","x","t"," ","w","i","n","d","o","w">>, fn |-> "cmd_next_window", safe |-> FALSE],
    [key |-> <<"n","e","x","t"," ","a","p","p">>, fn |-> "cmd_next_app", safe |-> FALSE],
    [key |-> <<"p","r","e","v","i","o","u","s"," ","a","p","p">>, fn |-> "cmd_prev_app", safe |-> FALSE],
    [key |-> <<"s","w","i","t","c","h"," ","a","p","p">>, fn |-> "cmd_switch_app", safe |-> FALSE],
    [key |-> <<"p","a","n","e"," ","l","e","f","t">>, fn |-> "cmd_pane_left", safe |-> FALSE],
    [key |-> <<"p","a","i","n"," ","l","e","f","t">>, fn |-> "cmd_pain_left", safe |-> FALSE],
    [key |-> <<"f","o","c","u","s"," ","l","e","f","t">>, fn |-> "cmd_focus_left", safe |-> FALSE],
    [key |-> <<"p","a","n","e"," ","d","o","w","n">>, fn |-> "cmd_pane_down", safe |-> FALSE],
    [key |-> <<"p","a","i","n"," ","d","o","w","n">>, fn |-> "cmd_pain_down", safe |-> FALSE],
    [key |-> <<"f","o","c","u","s"," ","d","o","w","n">>, fn |-> "cmd_focus_down", safe |-> FALSE],
    [key |-> <<"p","a","n","e"," ","u","p">>, fn |-> "cmd_pane_up", safe |-> FALSE],
    [key |-> <<"p","a","i","n"," ","u","p">>, fn |-> "cmd_pain_up", safe |-> FALSE],
    [key |-> <<"f","o","c","u","s"," ","u","p">>, fn |-> "cmd_focus_up", safe |-> FALSE],
    [key |-> <<"p","a","n","e"," ","r","i","g","h","t">>, fn |-> "cmd_pane_right", safe |-> FALSE],
    [key |-> <<"p","a","i","n"," ","r","i","g","h","t">>, fn |-> "cmd_pain_right", safe |-> FALSE],
    [key |-> <<"f","o","c","u","s"," ","r","i","g","h","t">>, fn |-> "cmd_focus_right", safe |-> FALSE]
  >>

_NATO ==
  <<[word |-> <<"a","l","p","h","a">>, letter |-> "a"], [word |-> <<"b","r","a","v","o">>, letter |-> "b"],
    [word |-> <<"c","h","a","r","l","i","e">>, letter |-> "c"], [word |-> <<"d","e","l","t","a">>, letter |-> "d"],
    [word |-> <<"e","c","h","o">>, letter |-> "e"], [word |-> <<"f","o","x","t","r","o","t">>, letter |-> "f"],
    [word |-> <<"g","o","l","f">>, letter |-> "g"], [word |-> <<"h","o","t","e","l">>, letter |-> "h"],
    [word |-> <<"i","n","d","i","a">>, letter |-> "i"], [word |-> <<"j","u","l","i","e","t">>, letter |-> "j"],
    [word |-> <<"k","i","l","o">>, letter |-> "k"], [word |-> <<"l","i","m","a">>, letter |-> "l"],
    [word |-> <<"m","i","k","e">>, letter |-> "m"], [word |-> <<"n","o","v","e","m","b","e","r">>, letter |-> "n"],
    [word |-> <<"o","s","c","a","r">>, letter |-> "o"], [word |-> <<"p","a","p","a">>, letter |-> "p"],
    [word |-> <<"q","u","e","b","e","c">>, letter |-> "q"], [word |-> <<"r","o","m","e","o">>, letter |-> "r"],
    [word |-> <<"s","i","e","r","r","a">>, letter |-> "s"], [word |-> <<"t","a","n","g","o">>, letter |-> "t"],
    [word |-> <<"u","n","i","f","o","r","m">>, letter |-> "u"], [word |-> <<"v","i","c","t","o","r">>, letter |-> "v"],
    [word |-> <<"w","h","i","s","k","e","y">>, letter |-> "w"], [word |-> <<"x","r","a","y">>, letter |-> "x"],
    [word |-> <<"y","a","n","k","e","e">>, letter |-> "y"], [word |-> <<"z","u","l","u">>, letter |-> "z"]>>

_NATO_WORDS == {_NATO[i].word : i \in 1..Len(_NATO)}

NatoLetter(w) == (CHOOSE i \in 1..Len(_NATO) : _NATO[i].word = w)

\* the prefixes of the second registration loop, in loop order
CapPrefixList == <<<<"c","a","p">>, <<"b","i","g">>, <<"t","a","p">>, <<"h","a","t">>, <<"h","a","p">>>>

_CAP_PREFIXES == Range(CapPrefixList)

\* for _nato_word, _letter in _NATO.items(): _EXACT[_nato_word] = handler(letter)
NatoRegistrations ==
  [i \in 1..Len(_NATO) |->
     [key |-> _NATO[i].word, fn |-> "nato_handler", safe |-> FALSE,
      letter |-> _NATO[i].letter]]

\* for _prefix in (...): for _nato_word ...: _EXACT["<prefix> <word>"] = handler(LETTER)
CapNatoRegistrations ==
  [n \in 1..(Len(CapPrefixList) * Len(_NATO)) |->
     LET p == ((n - 1) \div Len(_NATO)) + 1
         i == ((n - 1) % Len(_NATO)) + 1
     IN  [key |-> CapPrefixList[p] \o <<" ">> \o _NATO[i].word, fn |-> "nato_handler",
          safe |-> FALSE, letter |-> UpperChar(_NATO[i].letter)]]

\* every assignment _EXACT[key] = handler made while the module is imported,
\* in execution order
AllRegistrations ==
  [i \in 1..Len(ExactRegistrations) |->
     [key |-> ExactRegistrations[i].key, fn |-> ExactRegistrations[i].fn,
      safe |-> ExactRegistrations[i].safe, letter |-> ""]]
  \o NatoRegistrations \o CapNatoRegistrations

\* the keys of the dict _EXACT
ExactKeys == {AllRegistrations[i].key : i \in 1..Len(AllRegistrations)}

\* _EXACT[key]: a dict keeps the value of the last assignment to a key
_EXACT(key) ==
  LET i == CHOOSE j \in 1..Len(AllRegistrations) :
             /\ AllRegistrations[j].key = key
             /\ \A k \in (j + 1)..Len(AllRegistrations) : AllRegistrations[k].key # key
  IN  [fn |-> AllRegistrations[i].fn, letter |-> AllRegistrations[i].letter]

\* a registry in which every exact entry is flagged dictation_safe
EveryKeySafe == ExactKeys

\* the set _DICTATION_SAFE
_DICTATION_SAFE ==
  {ExactRegistrations[i].key : i \in {j \in 1..Len(ExactRegistrations) : ExactRegistrations[j].safe}}

\* _INSERT_AS_KEY: "insert <key name>" presses the key
_INSERT_AS_KEY(k) ==
  CASE k = <<"s","p","a","c","e">> -> "cmd_space"
    [] k = <<"t","a","b">> -> "cmd_tab"
    [] k = <<"e","n","t","e","r">> -> "cmd_enter"
    [] k = <<"n","e","w","l","i","n","e">> -> "cmd_newline"

InsertKeys == {<<"s","p","a","c","e">>, <<"t","a","b">>, <<"e","n","t","e","r">>, <<"n","e","w","l","i","n","e">>}

\* ------------------------------------------------------------------------
\* Parameterized patterns, in registration order
\* ------------------------------------------------------------------------

Direction2 == Alt(<<Lit(<<"l","e","f","t">>), Lit(<<"r","i","g","h","t">>)>>)

Direction4 == Alt(<<Lit(<<"u","p">>), Lit(<<"d","o","w","n">>), Lit(<<"l","e","f","t">>), Lit(<<"r","i","g","h","t">>)>>)

\* (?P<count>\w+ )?
OptCountSp == Opt(Grp("count", Cat(<<Plus("w"), Lit(<<" ">>)>>)))

\* words?
WordsQ == Cat(<<Lit(<<"w","o","r","d">>), Opt(Lit(<<"s">>))>>)

_PARAMETERIZED ==
  << \* select (?P<count>\w+ )?words? (?P<direction>left|right)
     [name |-> <<"s","e","l","e","c","t","_","w","o","r","d">>, fn |-> "cmd_select_word", groups |-> <<"count", "direction">>,
      re |-> Cat(<<Lit(<<"s","e","l","e","c","t"," ">>), OptCountSp, WordsQ, Lit(<<" ">>),
                    Grp("direction", Direction2)>>)],
     \* select (?P<count>\w+ )?(?P<direction>up|down|left|right)
     [name |-> <<"s","e","l","e","c","t","_","d","i","r","e","c","t","i","o","n">>, fn |-> "cmd_select_direction",
      groups |-> <<"count", "direction">>,
      re |-> Cat(<<Lit(<<"s","e","l","e","c","t"," ">>), OptCountSp, Grp("direction", Direction4)>>)],
     \* (?:go )?(?P<count>\w+ )?words? (?P<direction>left|right)
     [name |-> <<"w","o","r","d","_","m","o","v","e">>, fn |-> "cmd_word_move", groups |-> <<"count", "direction">>,
      re |-> Cat(<<Opt(Lit(<<"g","o"," ">>)), OptCountSp, WordsQ, Lit(<<" ">>),
                    Grp("direction", Direction2)>>)],
     \* go (?P<count>\w+) (?P<direction>up|down|left|right)
     [name |-> <<"g","o","_","n","_","d","i","r","e","c","t","i","o","n">>, fn |-> "cmd_go_n", groups |-> <<"count", "direction">>,
      re |-> Cat(<<Lit(<<"g","o"," ">>), Grp("count", Plus("w")), Lit(<<" ">>),
                    Grp("direction", Direction4)>>)],
     \* delete (?P<count>\w+ )?words?
     [name |-> <<"d","e","l","e","t","e","_","w","o","r","d","s">>, fn |-> "cmd_delete_words", groups |-> <<"count">>,
      re |-> Cat(<<Lit(<<"d","e","l","e","t","e"," ">>), OptCountSp, WordsQ>>)],
     \* delete (?P<count>\w+)
     [name |-> <<"d","e","l","e","t","e","_","n">>, fn |-> "cmd_delete_n", groups |-> <<"count">>,
      re |-> Cat(<<Lit(<<"d","e","l","e","t","e"," ">>), Grp("count", Plus("w"))>>)],
     \* go to line (?P<number>\d+)
     [name |-> <<"g","o","_","t","o","_","l","i","n","e">>, fn |-> "cmd_go_to_line", groups |-> <<"number">>,
      re |-> Cat(<<Lit(<<"g","o"," ","t","o"," ","l","i","n","e"," ">>), Grp("number", Plus("d"))>>)],
     \* select line (?P<number>\d+)
     [name |-> <<"s","e","l","e","c","t","_","l","i","n","e">>, fn |-> "cmd_select_line", groups |-> <<"number">>,
      re |-> Cat(<<Lit(<<"s","e","l","e","c","t"," ","l","i","n","e"," ">>), Grp("number", Plus("d"))>>)],
     \* (?:type|insert) (?P<text>.+)
     [name |-> <<"t","y","p","e","_","t","e","x","t">>, fn |-> "cmd_type_text", groups |-> <<"text">>,
      re |-> Cat(<<Alt(<<Lit(<<"t","y","p","e">>), Lit(<<"i","n","s","e","r","t">>)>>), Lit(<<" ">>),
                    Grp("text", Plus("any"))>>)] >>

\* ^\s*(?:type|insert)\s+(?P<text>.+?)\s*$  (re.IGNORECASE)
RawTypePattern ==
  [name |-> <<"t","y","p","e","_","t","e","x","t">>, fn |-> "cmd_type_text", groups |-> <<"text">>,
   re |-> Cat(<<Star("s"), Alt(<<Lit(<<"t","y","p","e">>), Lit(<<"i","n","s","e","r","t">>)>>), Plus("s"),
                 Grp("text", LazyPlus("any")), Star("s"), Eos>>)]

\* a scan of _PARAMETERIZED in which the last matching pattern wins
RECURSIVE LastParameterized(_, _)
LastParameterized(k, normalized) ==
  IF k > Len(_PARAMETERIZED) THEN <<>>
  ELSE LET later == LastParameterized(k + 1, normalized)
           m == ReMatch(_PARAMETERIZED[k], normalized, FALSE)
       IN  IF later # <<>> THEN later
           ELSE IF m # <<>>
           THEN <<[name |-> _PARAMETERIZED[k].name, fn |-> _PARAMETERIZED[k].fn,
                   args |-> m[1]]>>
           ELSE <<>>

\* for pattern, name, handler in _PARAMETERIZED: the first pattern that
\* matches, as <<[name, fn, args]>>, or <<>>
RECURSIVE FirstParameterized(_, _)
FirstParameterized(k, normalized) ==
  IF k > Len(_PARAMETERIZED) THEN <<>>
  ELSE LET m == ReMatch(_PARAMETERIZED[k], normalized, FALSE)
       IN  IF m # <<>>
           THEN <<[name |-> _PARAMETERIZED[k].name, fn |-> _PARAMETERIZED[k].fn,
                   args |-> m[1]]>>
           ELSE FirstParameterized(k + 1, normalized)

\* ------------------------------------------------------------------------
\* formatters.py
\* ------------------------------------------------------------------------

\* _words: text.lower().split()
_words(text) == SplitWords(Lower(text))

\* str.capitalize(): first character upper-cased, the rest lower-cased
Capitalize(w) == [i \in 1..Len(w) |-> IF i = 1 THEN UpperChar(w[i]) ELSE LowerChar(w[i])]

CapitalizeAll(ws) == [i \in 1..Len(ws) |-> Capitalize(ws[i])]

snake_case(text) == Join(_words(text), <<"_">>)

camel_case(text) ==
  LET words == _words(text)
  IN  IF words = <<>> THEN <<>>
      ELSE words[1] \o Join(CapitalizeAll(Tail(words)), <<>>)

pascal_case(text) == Join(CapitalizeAll(_words(text)), <<>>)

kebab_case(text) == Join(_words(text), <<"-">>)

dot_case(text) == Join(_words(text), <<".">>)

slash_case(text) == Join(_words(text), <<"/">>)

upper_case(text) == Upper(text)

lower_case(text) == Lower(text)

IsLetter(c) == c \in LowerSet \/ c \in UpperSet

\* str.title(): a letter that follows a non-letter is upper-cased, any other
\* letter lower-cased
title_case(text) ==
  [i \in 1..Len(text) |->
     IF i = 1 \/ ~IsLetter(text[i - 1]) THEN UpperChar(text[i]) ELSE LowerChar(text[i])]

constant_case(text) == Upper(Join(_words(text), <<"_">>))

\* the dict FORMATTERS, in source order
FORMATTERS ==
  <<[name |-> <<"s","n","a","k","e">>, fn |-> "snake_case"], [name |-> <<"s","n","a","k","e"," ","c","a","s","e">>, fn |-> "snake_case"],
    [name |-> <<"c","a","m","e","l">>, fn |-> "camel_case"], [name |-> <<"c","a","m","e","l"," ","c","a","s","e">>, fn |-> "camel_case"],
    [name |-> <<"p","a","s","c","a","l">>, fn |-> "pascal_case"], [name |-> <<"p","a","s","c","a","l"," ","c","a","s","e">>, fn |-> "pascal_case"],
    [name |-> <<"k","e","b","a","b">>, fn |-> "kebab_case"], [name |-> <<"k","e","b","a","b"," ","c","a","s","e">>, fn |-> "kebab_case"],
    [name |-> <<"d","o","t">>, fn |-> "dot_case"], [name |-> <<"d","o","t"," ","c","a","s","e">>, fn |-> "dot_case"],
    [name |-> <<"s","l","a","s","h">>, fn |-> "slash_case"], [name |-> <<"s","l","a","s","h"," ","c","a","s","e">>, fn |-> "slash_case"],
    [name |-> <<"u","p","p","e","r">>, fn |-> "upper_case"], [name |-> <<"u","p","p","e","r"," ","c","a","s","e">>, fn |-> "upper_case"],
    [name |-> <<"l","o","w","e","r">>, fn |-> "lower_case"], [name |-> <<"l","o","w","e","r"," ","c","a","s","e">>, fn |-> "lower_case"],
    [name |-> <<"t","i","t","l","e">>, fn |-> "title_case"], [name |-> <<"t","i","t","l","e"," ","c","a","s","e">>, fn |-> "title_case"],
    [name |-> <<"c","o","n","s","t","a","n","t">>, fn |-> "constant_case"],
    [name |-> <<"c","o","n","s","t","a","n","t"," ","c","a","s","e">>, fn |-> "constant_case"],
    [name |-> <<"a","l","l"," ","c","a","p","s">>, fn |-> "constant_case"]>>

ApplyFormatter(fn, text) ==
  CASE fn = "snake_case" -> snake_case(text)
    [] fn = "camel_case" -> camel_case(text)
    [] fn = "pascal_case" -> pascal_case(text)
    [] fn = "kebab_case" -> kebab_case(text)
    [] fn = "dot_case" -> dot_case(text)
    [] fn = "slash_case" -> slash_case(text)
    [] fn = "upper_case" -> upper_case(text)
    [] fn = "lower_case" -> lower_case(text)
    [] fn = "title_case" -> title_case(text)
    [] fn = "constant_case" -> constant_case(text)

\* the formatters whose name has length n, in source order
FormattersOfLen(n) == SelectSeq(FORMATTERS, LAMBDA f : Len(f.name) = n)

\* sorted(FORMATTERS, key=len, reverse=True): longest names first, names of
\* equal length in source order (the sort is stable)
RECURSIVE SortedFrom(_)
SortedFrom(n) == IF n = 0 THEN <<>> ELSE FormattersOfLen(n) \o SortedFrom(n - 1)

MaxFormatterLen == CHOOSE n \in 1..20 : /\ FormattersOfLen(n) # <<>>
                                        /\ \A m \in (n + 1)..20 : FormattersOfLen(m) = <<>>

SortedFormatters == SortedFrom(MaxFormatterLen)

\* the loop of try_format from the k-th sorted name on: <<[text, name]>> or <<>>
RECURSIVE TryFormatFrom(_, _, _)
TryFormatFrom(k, text, text_lower) ==
  IF k > Len(SortedFormatters) THEN <<>>
  ELSE LET f == SortedFormatters[k]
           remainder == Strip(Drop(text, Len(f.name) + 1))
       IN  IF StartsWith(text_lower, f.name \o <<" ">>) /\ remainder # <<>>
           THEN <<[text |-> ApplyFormatter(f.fn, remainder), name |-> f.name]>>
           ELSE TryFormatFrom(k + 1, text, text_lower)

try_format(text) == TryFormatFrom(1, text, Strip(Lower(text)))

\* ------------------------------------------------------------------------
\* commands._try_nato_sequence
\* ------------------------------------------------------------------------

\* the while loop from word index i on: <<letters>> or <<>> for None
RECURSIVE NatoFrom(_, _, _)
NatoFrom(words, i, result) ==
  IF i > Len(words) THEN <<result>>
  ELSE IF words[i] \in _CAP_PREFIXES /\ i + 1 <= Len(words) /\ words[i + 1] \in _NATO_WORDS
       THEN NatoFrom(words, i + 2,
                     result \o <<UpperChar(_NATO[NatoLetter(words[i + 1])].letter)>>)
       ELSE IF words[i] \in _NATO_WORDS
            THEN NatoFrom(words, i + 1, result \o <<_NATO[NatoLetter(words[i])].letter>>)
            ELSE <<>>

\* a decoder that skips the words it does not know
RECURSIVE NatoSkip(_, _, _)
NatoSkip(words, i, result) ==
  IF i > Len(words) THEN <<result>>
  ELSE IF words[i] \in _CAP_PREFIXES /\ i + 1 <= Len(words) /\ words[i + 1] \in _NATO_WORDS
       THEN NatoSkip(words, i + 2,
                     result \o <<UpperChar(_NATO[NatoLetter(words[i + 1])].letter)>>)
       ELSE IF words[i] \in _NATO_WORDS
            THEN NatoSkip(words, i + 1, result \o <<_NATO[NatoLetter(words[i])].letter>>)
            ELSE NatoSkip(words, i + 1, result)

NatoPartial(normalized) ==
  LET words == SplitWords(normalized)
  IN  IF Len(words) < 2 THEN <<>>
      ELSE LET r == NatoSkip(words, 1, <<>>)
           IN  IF r[1] # <<>> THEN r ELSE <<>>

\* <<typed string>> or <<>> for None
_try_nato_sequence(normalized) ==
  LET words == SplitWords(normalized)
  IN  IF Len(words) < 2 THEN <<>>
      ELSE LET r == NatoFrom(words, 1, <<>>)
           IN  IF r # <<>> /\ r[1] # <<>> THEN r ELSE <<>>

\* ------------------------------------------------------------------------
\* Dictation punctuation (commands.py)
\* ------------------------------------------------------------------------

_DICTATION_PUNCTUATION ==
  <<[word |-> <<"c","o","m","m","a">>, char |-> <<",">>], [word |-> <<"p","e","r","i","o","d">>, char |-> <<".">>],
    [word |-> <<"d","o","t">>, char |-> <<".">>], [word |-> <<"f","u","l","l"," ","s","t","o","p">>, char |-> <<".">>],
    [word |-> <<"q","u","e","s","t","i","o","n"," ","m","a","r","k">>, char |-> <<"?">>],
    [word |-> <<"e","x","c","l","a","m","a","t","i","o","n"," ","m","a","r","k">>, char |-> <<"!">>],
    [word |-> <<"e","x","c","l","a","m","a","t","i","o","n"," ","p","o","i","n","t">>, char |-> <<"!">>], [word |-> <<"b","a","n","g">>, char |-> <<"!">>],
    [word |-> <<"c","o","l","o","n">>, char |-> <<":">>], [word |-> <<"s","e","m","i","c","o","l","o","n">>, char |-> <<";">>],
    [word |-> <<"s","e","m","i"," ","c","o","l","o","n">>, char |-> <<";">>], [word |-> <<"d","a","s","h">>, char |-> <<"-">>],
    [word |-> <<"h","y","p","h","e","n">>, char |-> <<"-">>], [word |-> <<"o","p","e","n"," ","p","a","r","e","n">>, char |-> <<"(">>],
    [word |-> <<"c","l","o","s","e"," ","p","a","r","e","n">>, char |-> <<")">>], [word |-> <<"o","p","e","n"," ","b","r","a","c","k","e","t">>, char |-> <<"[">>],
    [word |-> <<"c","l","o","s","e"," ","b","r","a","c","k","e","t">>, char |-> <<"]">>], [word |-> <<"o","p","e","n"," ","b","r","a","c","e">>, char |-> <<"{">>],
    [word |-> <<"c","l","o","s","e"," ","b","r","a","c","e">>, char |-> <<"}">>], [word |-> <<"e","l","l","i","p","s","i","s">>, char |-> <<".",".",".">>]>>

PunctWords == {_DICTATION_PUNCTUATION[i].word : i \in 1..Len(_DICTATION_PUNCTUATION)}

PunctChar(w) ==
  _DICTATION_PUNCTUATION[CHOOSE i \in 1..Len(_DICTATION_PUNCTUATION) :
                            _DICTATION_PUNCTUATION[i].word = w].char

_OPENING_PUNCT == {<<"(">>, <<"[">>, <<"{">>}

\* a table in which no punctuation word is ambiguous
NothingAmbiguous == {}

_AMBIGUOUS_PUNCT == {<<"b","a","n","g">>, <<"d","a","s","h">>, <<"d","o","t">>, <<"h","y","p","h","e","n">>, <<"c","o","l","o","n">>}

\* max(len(k.split()) for k in _DICTATION_PUNCTUATION)
_PUNCT_MAX_WORDS ==
  CHOOSE n \in 1..4 :
    /\ \E w \in PunctWords : Len(SplitWords(w)) = n
    /\ \A w \in PunctWords : Len(SplitWords(w)) <= n

Min(a, b) == IF a < b THEN a ELSE b

\* for n in range(min(_PUNCT_MAX_WORDS, len(words)), 0, -1): <<[before, word, char]>>
\* or <<>>
RECURSIVE TrailingFrom(_, _)
TrailingFrom(words, n) ==
  IF n = 0 THEN <<>>
  ELSE LET tail == Join(SubSeq(words, Len(words) - n + 1, Len(words)), <<" ">>)
           before == Join(SubSeq(words, 1, Len(words) - n), <<" ">>)
       IN  IF tail \in PunctWords /\ ~(before # <<>> /\ tail \in _AMBIGUOUS_PUNCT)
           THEN <<[before |-> before, word |-> tail, char |-> PunctChar(tail)]>>
           ELSE TrailingFrom(words, n - 1)

_match_trailing_punctuation(normalized) ==
  LET words == SplitWords(normalized)
  IN  IF words = <<>> THEN <<>>
      ELSE TrailingFrom(words, Min(_PUNCT_MAX_WORDS, Len(words)))

\* the first n_words whitespace-separated tokens of the raw text
_raw_prefix(raw_text, normalized_before) ==
  IF normalized_before = <<>> THEN <<>>
  ELSE LET n_words == Len(SplitWords(normalized_before))
           raw_words == SplitWords(raw_text)
       IN  Join(SubSeq(raw_words, 1, Min(n_words, Len(raw_words))), <<" ">>)

\* ------------------------------------------------------------------------
\* Handlers and match results
\* ------------------------------------------------------------------------

\* A handler is the function a match carries, with what its closure holds:
\* the letter of a phonetic handler, the keyword arguments or the text of a
\* lambda.  NoHandler is Python's None.
Handler(fn, letter, args, text, char) ==
  [fn |-> fn, letter |-> letter, args |-> args, text |-> text, char |-> char]

Plain(fn) == Handler(fn, "", <<>>, <<>>, <<>>)

NoHandler == Plain("None")

\* _EXACT[key] as a handler
ExactHandler(key) == Handler(_EXACT(key).fn, _EXACT(key).letter, <<>>, <<>>, <<>>)

\* one entry of an args dict
Arg(name, val) == [name |-> name, matched |-> TRUE, val |-> val]

\* the dataclass CommandMatch; subs are the matches a multi-command runs
CommandMatch(name, handler, args, kind, subs) ==
  [name |-> name, handler |-> handler, args |-> args, kind |-> kind, subs |-> subs]

\* ------------------------------------------------------------------------
\* commands._match_single: exact, parameterized, formatter, NATO
\* ------------------------------------------------------------------------

\* the later tiers without the formatters
RulesWithoutFormatters(normalized) ==
  LET pm  == FirstParameterized(1, normalized)
      nato == _try_nato_sequence(normalized)
  IN  IF pm # <<>>
      THEN <<CommandMatch(pm[1].name, Plain(pm[1].fn), pm[1].args, "parameterized", <<>>)>>
      ELSE IF nato # <<>>
      THEN <<CommandMatch(<<"n","a","t","o","_","s","e","q","u","e","n","c","e">>,
                          Handler("_type_formatted", "", <<>>, nato[1], <<>>),
                          <<Arg("text", nato[1])>>, "exact", <<>>)>>
      ELSE <<>>

\* tier 2-4 of _match_single, after the exact lookup declined
MatchSingleRules(normalized) ==
  LET pm  == FirstParameterized(1, normalized)
      fmt == try_format(normalized)
      nato == _try_nato_sequence(normalized)
  IN  IF pm # <<>>
      THEN <<CommandMatch(pm[1].name, Plain(pm[1].fn), pm[1].args, "parameterized", <<>>)>>
      ELSE IF fmt # <<>>
      THEN <<CommandMatch(<<"f","o","r","m","a","t",":">> \o fmt[1].name,
                          Handler("_type_formatted", "", <<>>, fmt[1].text, <<>>),
                          <<Arg("text", fmt[1].text)>>, "formatter", <<>>)>>
      ELSE IF nato # <<>>
      THEN <<CommandMatch(<<"n","a","t","o","_","s","e","q","u","e","n","c","e">>,
                          Handler("_type_formatted", "", <<>>, nato[1], <<>>),
                          <<Arg("text", nato[1])>>, "exact", <<>>)>>
      ELSE <<>>

\* a lookup that tries the parameterized patterns before the exact table
RulesBeforeExact(normalized) ==
  IF MatchSingleRules(normalized) # <<>> THEN MatchSingleRules(normalized)
  ELSE IF normalized \in ExactKeys
  THEN <<CommandMatch(normalized, ExactHandler(normalized), <<>>, "exact", <<>>)>>
  ELSE <<>>

\* <<CommandMatch>> or <<>> for None
_match_single(normalized) ==
  IF normalized \in ExactKeys
  THEN <<CommandMatch(normalized, ExactHandler(normalized), <<>>, "exact", <<>>)>>
  ELSE MatchSingleRules(normalized)

\* re.split(r'[.!?,;]+', text): the pieces between runs of sentence
\* punctuation, empty pieces included
SentencePunct == {".", "!", "?", ",", ";"}

RECURSIVE RunOfPunct(_)
RunOfPunct(s) ==
  IF s = <<>> \/ Head(s) \notin SentencePunct THEN 0 ELSE 1 + RunOfPunct(Tail(s))

RECURSIVE ReSplit(_, _)
ReSplit(s, piece) ==
  IF s = <<>> THEN <<piece>>
  ELSE IF Head(s) \in SentencePunct
       THEN <<piece>> \o ReSplit(Drop(s, RunOfPunct(s) + 1), <<>>)
       ELSE ReSplit(Tail(s), Append(piece, Head(s)))

\* [s.strip() for s in sentences if s.strip()]
Sentences(raw_text) ==
  LET pieces == ReSplit(raw_text, <<>>)
      stripped == [i \in 1..Len(pieces) |-> Strip(pieces[i])]
  IN  SelectSeq(stripped, LAMBDA s : s # <<>>)

\* the matches of the sentences that match, in order (sentences that
\* normalize to nothing or match nothing are skipped)
RECURSIVE MatchEach(_)
MatchEach(sentences) ==
  IF sentences = <<>> THEN <<>>
  ELSE LET norm_sent == _normalize(Head(sentences))
       IN  (IF norm_sent = <<>> THEN <<>> ELSE _match_single(norm_sent))
           \o MatchEach(Tail(sentences))

Names(ms) == [i \in 1..Len(ms) |-> ms[i].name]

\* the literal-dictation result of match and match_dictation_mode
DictationMatch(raw_text) ==
  CommandMatch(<<"d","i","c","t","a","t","i","o","n">>, Handler("_type_dictation", "", <<>>, raw_text, <<>>),
               <<Arg("text", raw_text)>>, "dictation", <<>>)

\* a resolver without the raw form: every transcript goes to the tables
NoRawForm(raw_text) == <<>>

\* the explicit "type <text>" / "insert <text>" form of the raw transcript
RawTypeMatch(raw_text) == ReMatch(RawTypePattern, raw_text, TRUE)

\* a split that gives a multi-command only for two matches or more
SplitOfSeveral(raw_text) ==
  LET sentences == Sentences(raw_text)
      handlers == IF Len(sentences) > 1 THEN MatchEach(sentences) ELSE <<>>
  IN  IF Len(handlers) > 1
      THEN CommandMatch(<<"m","u","l","t","i",":">> \o Join(Names(handlers), <<"+">>),
                        Plain("run_all"), <<>>, "exact", handlers)
      ELSE DictationMatch(raw_text)

\* the split step of match: a multi-command, or literal dictation
MatchSplit(raw_text) ==
  LET sentences == Sentences(raw_text)
      handlers == IF Len(sentences) > 1 THEN MatchEach(sentences) ELSE <<>>
  IN  IF handlers # <<>>
      THEN CommandMatch(<<"m","u","l","t","i",":">> \o Join(Names(handlers), <<"+">>),
                        Plain("run_all"), <<>>, "exact", handlers)
      ELSE DictationMatch(raw_text)

\* commands.match (command mode)
match(raw_text) ==
  LET m == RawTypeMatch(raw_text)
  IN  IF m # <<>>
      THEN LET text == m[1][1].val
               text_norm == _normalize(text)
           IN  IF text_norm \in InsertKeys
               THEN CommandMatch(<<"i","n","s","e","r","t",":">> \o text_norm, Plain(_INSERT_AS_KEY(text_norm)),
                                 <<>>, "exact", <<>>)
               ELSE CommandMatch(<<"t","y","p","e","_","t","e","x","t">>, Plain("cmd_type_text"),
                                 <<Arg("text", text)>>, "parameterized", <<>>)
      ELSE LET result == _match_single(_normalize(raw_text))
           IN  IF result # <<>> THEN result[1] ELSE MatchSplit(raw_text)

\* commands.match_dictation_mode
match_dictation_mode(raw_text) ==
  LET normalized == _normalize(raw_text)
      punct_match == _match_trailing_punctuation(normalized)
  IN  IF normalized \in ExactKeys /\ normalized \in _DICTATION_SAFE
      THEN CommandMatch(normalized, ExactHandler(normalized), <<>>, "exact", <<>>)
      ELSE IF punct_match # <<>>
      THEN LET pm == punct_match[1]
           IN  IF pm.before = <<>>
               THEN CommandMatch(<<"p","u","n","c","t",":">> \o pm.word,
                                 Handler("_type_punctuation", "", <<>>, <<>>, pm.char),
                                 <<Arg("char", pm.char)>>, "exact", <<>>)
               ELSE LET raw_before == _raw_prefix(raw_text, pm.before)
                    IN  CommandMatch(<<"d","i","c","t","a","t","i","o","n","+","p","u","n","c","t",":">> \o pm.word,
                                     Handler("_type_dictation_then_punct", "", <<>>,
                                             raw_before, pm.char),
                                     <<Arg("text", raw_before), Arg("char", pm.char)>>,
                                     "dictation", <<>>)
      ELSE DictationMatch(raw_text)

\* ------------------------------------------------------------------------
\* intent.py: Action, IntentResult, IntentParser
\* ------------------------------------------------------------------------

\* the dataclass Action
Action(kind, name, args, text, handler) ==
  [kind |-> kind, name |-> name, args |-> args, text |-> text, handler |-> handler]

\* the dataclass IntentResult
IntentResult(actions, source) == [actions |-> actions, source |-> source]

\* the lambda of a parameterized action: h called with the keyword arguments a
BoundHandler(fn, args) == Handler(fn, "", args, <<>>, <<>>)

\* a, or b when a is None
OrElse(a, b) == IF a # <<>> THEN a ELSE b

\* the Action of a parameterized match pm, <<>> for none
ParamAction(pm) ==
  IF pm = <<>> THEN <<>>
  ELSE <<Action("command", pm[1].name, pm[1].args, <<>>, BoundHandler(pm[1].fn, pm[1].args))>>

\* the Action of a formatter match fmt, <<>> for none
FormatAction(fmt) ==
  IF fmt = <<>> THEN <<>>
  ELSE <<Action("format", <<"f","o","r","m","a","t",":">> \o fmt[1].name, <<>>, fmt[1].text,
                Handler("_type_formatted", "", <<>>, fmt[1].text, <<>>))>>

\* the Action of a phonetic sequence nato, <<>> for none
NatoAction(nato) ==
  IF nato = <<>> THEN <<>>
  ELSE <<Action("command", <<"n","a","t","o","_","s","e","q","u","e","n","c","e">>, <<>>, nato[1],
                Handler("_type_formatted", "", <<>>, nato[1], <<>>))>>

\* tiers 2-4 of _fast_path and _match_single_normalized, as <<Action>> or <<>>
RuleAction(normalized) ==
  OrElse(ParamAction(FirstParameterized(1, normalized)),
         OrElse(FormatAction(try_format(normalized)),
                NatoAction(_try_nato_sequence(normalized))))

\* IntentParser._match_single_normalized: <<Action>> or <<>> for None
_match_single_normalized(normalized) ==
  IF normalized = <<>> THEN <<>>
  ELSE IF normalized \in ExactKeys
  THEN <<Action("command", normalized, <<>>, <<>>, ExactHandler(normalized))>>
  ELSE RuleAction(normalized)

\* a split that stops at the first sentence that matches
RECURSIVE FirstActionOnly(_)
FirstActionOnly(sentences) ==
  IF sentences = <<>> THEN <<>>
  ELSE OrElse(_match_single_normalized(_normalize(Head(sentences))),
              FirstActionOnly(Tail(sentences)))

\* the actions of the sentences that match, in order
RECURSIVE ActionsOfEach(_)
ActionsOfEach(sentences) ==
  IF sentences = <<>> THEN <<>>
  ELSE _match_single_normalized(_normalize(Head(sentences)))
       \o ActionsOfEach(Tail(sentences))

\* a sentence that matches nothing kept as dictation of the sentence
RECURSIVE ActionsOrDictation(_)
ActionsOrDictation(sentences) ==
  IF sentences = <<>> THEN <<>>
  ELSE OrElse(_match_single_normalized(_normalize(Head(sentences))),
              <<Action("dictation", <<"d","i","c","t","a","t","i","o","n">>, <<>>, Head(sentences),
                       Handler("_type_dictation", "", <<>>, Head(sentences), <<>>))>>)
       \o ActionsOrDictation(Tail(sentences))

\* a split that types the sentences no rule matches
SplitKeepsUnmatched(transcript) ==
  IF Len(Sentences(transcript)) > 1
     /\ ActionsOfEach(Sentences(transcript)) # <<>>
  THEN <<IntentResult(ActionsOrDictation(Sentences(transcript)), "fast_path")>>
  ELSE <<>>

\* step 5 of _fast_path: the multi-sentence split
FastPathSplit(transcript) ==
  LET sentences == Sentences(transcript)
      actions == IF Len(sentences) > 1 THEN ActionsOfEach(sentences) ELSE <<>>
  IN  IF actions # <<>> THEN <<IntentResult(actions, "fast_path")>> ELSE <<>>

\* steps 1-5 of _fast_path on a transcript that is not of the type/insert form
FastPathRules(transcript) ==
  LET normalized == _normalize(transcript)
      single == IF normalized \in ExactKeys
                THEN <<Action("command", normalized, <<>>, <<>>, ExactHandler(normalized))>>
                ELSE RuleAction(normalized)
  IN  IF single # <<>> THEN <<IntentResult(single, "fast_path")>>
      ELSE FastPathSplit(transcript)

\* IntentParser._fast_path: <<IntentResult>> or <<>> for None
_fast_path(transcript) ==
  LET raw_m == RawTypeMatch(transcript)
  IN  IF raw_m # <<>>
      THEN LET text == raw_m[1][1].val
               text_norm == _normalize(text)
           IN  IF text_norm \in InsertKeys
               THEN <<IntentResult(<<Action("command", <<"i","n","s","e","r","t",":">> \o text_norm, <<>>, <<>>,
                                            Plain(_INSERT_AS_KEY(text_norm)))>>, "fast_path")>>
               ELSE <<IntentResult(<<Action("command", <<"t","y","p","e","_","t","e","x","t">>, <<Arg("text", text)>>,
                                            text,
                                            BoundHandler("cmd_type_text", <<Arg("text", text)>>))>>,
                                   "fast_path")>>
      ELSE FastPathRules(transcript)

_COMMAND_WORDS ==
  {<<"g","o">>, <<"m","o","v","e">>, <<"d","e","l","e","t","e">>, <<"s","e","l","e","c","t">>, <<"s","a","v","e">>, <<"u","n","d","o">>, <<"r","e","d","o">>,
   <<"c","o","p","y">>, <<"c","u","t">>, <<"p","a","s","t","e">>, <<"t","a","b">>, <<"c","l","o","s","e">>, <<"o","p","e","n">>, <<"n","e","w">>,
   <<"w","o","r","d">>, <<"w","o","r","d","s">>, <<"l","i","n","e">>, <<"h","e","a","d">>, <<"t","a","i","l">>, <<"h","o","m","e">>, <<"e","n","d">>,
   <<"u","p">>, <<"d","o","w","n">>, <<"l","e","f","t">>, <<"r","i","g","h","t">>, <<"p","a","g","e">>, <<"f","o","c","u","s">>,
   <<"c","a","n","c","e","l">>, <<"e","s","c","a","p","e">>, <<"e","n","t","e","r">>, <<"s","p","a","c","e">>, <<"b","a","c","k","s","p","a","c","e">>,
   <<"t","y","p","e">>, <<"i","n","s","e","r","t">>, <<"s","c","r","a","t","c","h">>, <<"f","i","n","d">>, <<"c","o","m","m","e","n","t">>,
   <<"s","n","a","k","e">>, <<"c","a","m","e","l">>, <<"p","a","s","c","a","l">>, <<"k","e","b","a","b">>, <<"c","o","n","s","t","a","n","t">>,
   <<"b","e","g","i","n","n","i","n","g">>, <<"f","r","o","n","t">>, <<"b","a","c","k">>, <<"s","t","a","r","t">>, <<"t","o","p">>, <<"b","o","t","t","o","m">>,
   <<"s","w","i","t","c","h">>, <<"c","h","a","n","g","e">>, <<"n","e","x","t">>, <<"p","r","e","v","i","o","u","s">>}

\* an escalation test that lets every transcript through
AnyTranscript(transcript) == TRUE

_has_command_words(transcript) ==
  Range(SplitWords(_normalize(transcript))) \cap _COMMAND_WORDS # {}

\* a fallback whose action carries no handler
FallbackWithoutHandler(transcript) ==
  IntentResult(<<Action("dictation", <<"d","i","c","t","a","t","i","o","n">>, <<>>, transcript, NoHandler)>>, "fallback")

\* IntentParser._fallback: literal dictation of the transcript
_fallback(transcript) ==
  IntentResult(<<Action("dictation", <<"d","i","c","t","a","t","i","o","n">>, <<>>, transcript,
                        Handler("_type_dictation", "", <<>>, transcript, <<>>))>>,
               "fallback")

\* ------------------------------------------------------------------------
\* The remote provider and its response
\*
\* A reply of SLMProvider.complete is [kind, data]: kind "raise" (timeout or
\* any other exception), "none" (None), "empty" (the empty string) or
\* "text"; data is what json.loads makes of the text once the code fences
\* are stripped: [t |-> "invalid"] (JSONDecodeError), [t |-> "notlist"]
\* (valid JSON, not an array) or [t |-> "list", items |-> ...].
\* An item is [obj, kind, nameOk, name, argsOk, args, text]:
\*   obj     the item is a JSON object (item.get exists)
\*   kind    item.get("kind", ""): "command", "dictation" or anything else
\*   nameOk  item.get("name", "") is a string
\*   argsOk  item.get("args", {}) is a mapping or falsy; when FALSE it is a
\*           truthy value without .values()
\*   args    the entries of the mapping, text the value of "text"
\* ------------------------------------------------------------------------

Reply(kind, data) == [kind |-> kind, data |-> data]

Json(t, items) == [t |-> t, items |-> items]

Item(obj, kind, nameOk, name, argsOk, args, text) ==
  [obj |-> obj, kind |-> kind, nameOk |-> nameOk, name |-> name, argsOk |-> argsOk,
   args |-> args, text |-> text]

\* a value, or an exception on its way up the stack
Ok(v) == [exc |-> FALSE, val |-> v]

Raised == [exc |-> TRUE, val |-> <<>>]

\* str.replace("_", " ")
ReplaceUnderscore(s) == [i \in 1..Len(s) |-> IF s[i] = "_" THEN " " ELSE s[i]]

\* args.get(key, ""): the value of the last entry named key, or ""
ArgGet(args, key) ==
  IF \E i \in 1..Len(args) : args[i].name = key
  THEN args[CHOOSE i \in 1..Len(args) : args[i].name = key].val
  ELSE <<>>

ArgValues(args) == [i \in 1..Len(args) |-> args[i].val]

\* the candidate phrases of _resolve_command_action, in the order tried
Candidates(normalized, with_spaces, args) ==
  LET arg_str == Join(ArgValues(args), <<" ">>)
      count == ArgGet(args, "count")
      direction == ArgGet(args, "direction")
  IN  <<normalized, with_spaces>>
      \o (IF args = <<>> THEN <<>>
          ELSE <<normalized \o <<" ">> \o arg_str, with_spaces \o <<" ">> \o arg_str, arg_str>>
               \o (IF count # <<>> /\ direction # <<>>
                   THEN <<<<"g","o"," ">> \o count \o <<" ">> \o direction,
                          count \o <<" ","w","o","r","d","s"," ">> \o direction,
                          <<"d","e","l","e","t","e"," ">> \o count \o <<" ","w","o","r","d","s">>,
                          <<"d","e","l","e","t","e"," ">> \o count,
                          <<"s","e","l","e","c","t"," ">> \o count \o <<" ">> \o direction>>
                   ELSE IF count # <<>>
                   THEN <<<<"s","e","l","e","c","t"," ">> \o count \o <<" ","w","o","r","d","s"," ","l","e","f","t">>,
                          <<"d","e","l","e","t","e"," ">> \o count \o <<" ","w","o","r","d","s">>,
                          <<"d","e","l","e","t","e"," ">> \o count>>
                   ELSE <<>>))

\* for candidate in candidates: for pattern in _PARAMETERIZED: first match
RECURSIVE FirstCandidate(_, _)
FirstCandidate(candidates, k) ==
  IF k > Len(candidates) THEN <<>>
  ELSE OrElse(ParamAction(FirstParameterized(1, candidates[k])),
              FirstCandidate(candidates, k + 1))

\* a resolver that takes the remote item at its word: the action carries a
\* handler made from the item, whether or not the registry knows the name
TrustsRemote(item) ==
  IF ~item.nameOk THEN Raised
  ELSE Ok(<<Action("command", _normalize(item.name), item.args, <<>>,
                   BoundHandler("remote", item.args))>>)

\* IntentParser._resolve_command_action: Ok(<<Action>>), Ok(<<>>) for None,
\* or Raised (AttributeError on a name or args of the wrong type)
_resolve_command_action(item) ==
  IF ~item.nameOk THEN Raised
  ELSE LET normalized == _normalize(item.name)
           with_spaces == ReplaceUnderscore(normalized)
       IN  IF normalized \in ExactKeys
           THEN Ok(<<Action("command", normalized, <<>>, <<>>, ExactHandler(normalized))>>)
           ELSE IF with_spaces \in ExactKeys
           THEN Ok(<<Action("command", with_spaces, <<>>, <<>>, ExactHandler(with_spaces))>>)
           ELSE IF ~item.argsOk THEN Raised
           ELSE Ok(FirstCandidate(Candidates(normalized, with_spaces, item.args), 1))

\* the body of the loop "for item in data" of _parse_slm_response
ItemActions(item) ==
  IF ~item.obj THEN Raised
  ELSE IF item.kind = "command" THEN _resolve_command_action(item)
  ELSE IF item.kind = "dictation" /\ item.text # <<>>
  THEN Ok(<<Action("dictation", <<"d","i","c","t","a","t","i","o","n">>, <<>>, item.text,
                   Handler("_type_dictation", "", <<>>, item.text, <<>>))>>)
  ELSE Ok(<<>>)

\* the loop of _parse_slm_response: an exception in one item leaves the loop
RECURSIVE CollectActions(_, _)
RECURSIVE Collected(_, _, _)
Collected(r, items, actions) ==
  IF r.exc THEN Raised ELSE CollectActions(items, actions \o r.val)

CollectActions(items, actions) ==
  IF items = <<>> THEN Ok(actions)
  ELSE Collected(ItemActions(Head(items)), Tail(items), actions)

\* IntentParser._parse_slm_response: Ok(actions), Ok(<<>>) for None, or Raised
_parse_slm_response(data) ==
  IF data.t # "list" THEN Ok(<<>>) ELSE CollectActions(data.items, <<>>)

\* "if actions: return IntentResult(actions=actions, source='slm')" and the
\* "return None" after it, r being what _parse_slm_response did
SlmResult(r) ==
  IF r.exc THEN [exc |-> TRUE, val |-> <<>>, calls |-> 1]
  ELSE IF r.val # <<>>
  THEN [exc |-> FALSE, val |-> <<IntentResult(r.val, "slm")>>, calls |-> 1]
  ELSE [exc |-> FALSE, val |-> <<>>, calls |-> 1]

\* the try block of _slm_path once the provider is known to be available:
\* [exc, val, calls], calls counting the invocations of complete()
SlmTry(reply) ==
  IF reply.kind = "raise" THEN [exc |-> TRUE, val |-> <<>>, calls |-> 1]
  ELSE IF reply.kind # "text" THEN [exc |-> FALSE, val |-> <<>>, calls |-> 1]
  ELSE SlmResult(_parse_slm_response(reply.data))

\* "except Exception": an exception of the try block becomes None
ExceptException(r) ==
  IF r.exc THEN [exc |-> FALSE, val |-> <<>>, calls |-> r.calls] ELSE r

\* IntentParser._slm_path
_slm_path(available, reply) ==
  IF ~available THEN [exc |-> FALSE, val |-> <<>>, calls |-> 0]
  ELSE ExceptException(SlmTry(reply))

\* IntentParser.__init__: self._use_slm
InitUseSlm(use_slm, available) == use_slm /\ available

\* the escalation step of parse
Escalate(use_slm, transcript, available, reply) ==
  IF use_slm /\ _has_command_words(transcript)
  THEN _slm_path(available, reply)
  ELSE [exc |-> FALSE, val |-> <<>>, calls |-> 0]

\* the end of parse, slm being what the escalation step did
AfterEscalation(slm, transcript) ==
  IF slm.exc THEN [raised |-> TRUE, result |-> <<>>, calls |-> slm.calls]
  ELSE IF slm.val # <<>>
  THEN [raised |-> FALSE, result |-> slm.val, calls |-> slm.calls]
  ELSE [raised |-> FALSE, result |-> <<_fallback(transcript)>>, calls |-> slm.calls]

\* parse after the fast path returned fast
AfterFastPath(fast, use_slm, transcript, available, reply) ==
  IF fast # <<>> THEN [raised |-> FALSE, result |-> fast, calls |-> 0]
  ELSE AfterEscalation(Escalate(use_slm, transcript, available, reply), transcript)

\* IntentParser.parse: [raised, result, calls]; result is <<IntentResult>>, or
\* <<>> when an exception left parse
parse(use_slm, transcript, available, reply) ==
  AfterFastPath(_fast_path(transcript), use_slm, transcript, available, reply)

\* ------------------------------------------------------------------------
\* actions.py: key injection.  What a handler posts is a sequence of key
\* events [key, mods]: the virtual keycode and the modifier flags that
\* _post_key is called with (key down and key up are one event here).
\* ------------------------------------------------------------------------

KeyEvent(key, mods) == [key |-> key, mods |-> mods]

\* the one-character keys of _KEYCODES; the grave accent is written
\* "backtick", a string cannot hold the character itself
CharKeys ==
  LowerSet \cup DigitChars \cup {"-", "=", "[", "]", ";", "'", ",", ".", "/", "\\", "backtick"}

\* the named keys of _KEYCODES with their keycodes
NamedKeys ==
  <<[key |-> <<"r","e","t","u","r","n">>, code |-> 36], [key |-> <<"e","n","t","e","r">>, code |-> 36],
    [key |-> <<"t","a","b">>, code |-> 48], [key |-> <<"s","p","a","c","e">>, code |-> 49],
    [key |-> <<"d","e","l","e","t","e">>, code |-> 51], [key |-> <<"b","a","c","k","s","p","a","c","e">>, code |-> 51],
    [key |-> <<"e","s","c","a","p","e">>, code |-> 53], [key |-> <<"e","s","c">>, code |-> 53],
    [key |-> <<"l","e","f","t">>, code |-> 123], [key |-> <<"r","i","g","h","t">>, code |-> 124],
    [key |-> <<"d","o","w","n">>, code |-> 125], [key |-> <<"u","p">>, code |-> 126],
    [key |-> <<"h","o","m","e">>, code |-> 115], [key |-> <<"e","n","d">>, code |-> 119],
    [key |-> <<"p","a","g","e","u","p">>, code |-> 116], [key |-> <<"p","a","g","e","d","o","w","n">>, code |-> 121],
    [key |-> <<"f","1">>, code |-> 122], [key |-> <<"f","2">>, code |-> 120],
    [key |-> <<"f","3">>, code |-> 99], [key |-> <<"f","4">>, code |-> 118],
    [key |-> <<"f","5">>, code |-> 96], [key |-> <<"f","6">>, code |-> 97],
    [key |-> <<"f","7">>, code |-> 98], [key |-> <<"f","8">>, code |-> 100],
    [key |-> <<"f","9">>, code |-> 101], [key |-> <<"f","1","0">>, code |-> 109],
    [key |-> <<"f","1","1">>, code |-> 103], [key |-> <<"f","1","2">>, code |-> 111]>>

DigitSeq == <<"0","1","2","3","4","5","6","7","8","9">>

DigitValue(c) == (CHOOSE i \in 1..10 : DigitSeq[i] = c) - 1

\* the keycode of a one-character key: "chr(c): c - ord('a')" for the
\* letters, the list of ten for the digits, the literals for the rest
CharCode(c) ==
  CASE c \in LowerSet -> (CHOOSE i \in 1..26 : LowerAlpha[i] = c) - 1
    [] c \in DigitChars -> <<29, 18, 19, 20, 21, 23, 22, 26, 28, 25>>[DigitValue(c) + 1]
    [] c = "-" -> 27 [] c = "=" -> 24 [] c = "[" -> 33 [] c = "]" -> 30 [] c = ";" -> 41
    [] c = "'" -> 39 [] c = "," -> 43 [] c = "." -> 47 [] c = "/" -> 44 [] c = "\\" -> 42
    [] c = "backtick" -> 50

\* the dict _KEYCODES: key name -> virtual keycode
_KEYCODES ==
  [k \in {NamedKeys[i].key : i \in 1..Len(NamedKeys)} \cup {<<c>> : c \in CharKeys} |->
     IF Len(k) = 1 /\ k[1] \in CharKeys THEN CharCode(k[1])
     ELSE NamedKeys[CHOOSE i \in 1..Len(NamedKeys) : NamedKeys[i].key = k].code]

_SHIFT_CHARS ==
  UpperSet \cup {"~", "!", "@", "#", "$", "%", "^", "&", "*", "(", ")", "_", "+",
                 "{", "}", "|", ":", "\"", "<", ">", "?"}

\* the flag of one modifier name of press_key, {} for a name it does not know
ModifierFlag(mod) ==
  LET mod_lower == Lower(mod)
  IN  IF mod_lower \in {<<"s","h","i","f","t">>, <<"s","h","f","t">>} THEN {"shift"}
      ELSE IF mod_lower \in {<<"c","t","r","l">>, <<"c","o","n","t","r","o","l">>} THEN {"ctrl"}
      ELSE IF mod_lower \in {<<"a","l","t">>, <<"o","p","t","i","o","n">>, <<"o","p","t">>} THEN {"alt"}
      ELSE IF mod_lower \in {<<"c","m","d">>, <<"c","o","m","m","a","n","d">>, <<"s","u","p","e","r">>} THEN {"cmd"}
      ELSE {}

\* "flags |= ..." over the modifiers
Flags(mods) == UNION {ModifierFlag(mods[i]) : i \in 1..Len(mods)}

\* press_key(key, modifiers): the key is looked up in lower case; an unknown
\* key is logged and nothing is posted
press_key(key, mods) ==
  IF Lower(key) \in DOMAIN _KEYCODES
  THEN <<KeyEvent(_KEYCODES[Lower(key)], Flags(mods))>>
  ELSE <<>>

\* hotkey(key, *modifiers)
hotkey(key, mods) == press_key(key, mods)

\* the event type_text posts for one character; <<>> for an unmapped one
TypeChar(ch) ==
  IF ch = " " THEN <<KeyEvent(_KEYCODES[<<"s","p","a","c","e">>], {})>>
  ELSE IF ch = "\n" THEN <<KeyEvent(_KEYCODES[<<"r","e","t","u","r","n">>], {})>>
  ELSE IF ch = "\t" THEN <<KeyEvent(_KEYCODES[<<"t","a","b">>], {})>>
  ELSE IF <<LowerChar(ch)>> \in DOMAIN _KEYCODES
  THEN <<KeyEvent(_KEYCODES[<<LowerChar(ch)>>], IF ch \in _SHIFT_CHARS THEN {"shift"} ELSE {})>>
  ELSE <<>>

\* type_text(text): one event per mapped character, unmapped ones skipped;
\* the function sleeps after every event it posts
RECURSIVE type_text(_)
type_text(text) ==
  IF text = <<>> THEN <<>> ELSE TypeChar(Head(text)) \o type_text(Tail(text))

\* ------------------------------------------------------------------------
\* Handlers (commands.py).  A handler acts on the session state
\* [len, posted, mode]: len is _last_typed_len, posted the key events sent
\* so far in this dispatch, mode the engine mode.
\* ------------------------------------------------------------------------

\* the body of a zero-argument handler of the exact table: what it calls and,
\* for a key press, with which key and modifiers
HandlerBody(fn) ==
  CASE fn \in {"cmd_command_mode", "cmd_commands", "cmd_command"}
         -> [op |-> "_switch_command", key |-> <<>>, mods |-> <<>>]
    [] fn \in {"cmd_dictation_mode", "cmd_dictation", "cmd_dictate", "cmd_typing", "cmd_typing_mode"}
         -> [op |-> "_switch_dictation", key |-> <<>>, mods |-> <<>>]
    [] fn \in {"cmd_scratch", "cmd_scratch_alt"}
         -> [op |-> "_scratch_last", key |-> <<>>, mods |-> <<>>]
    [] fn \in {"cmd_cancel", "cmd_control_c"}
         -> [op |-> "press_key", key |-> <<"c">>, mods |-> <<<<"c","t","r","l">>>>]
    [] fn \in {"cmd_clear"}
         -> [op |-> "press_key", key |-> <<"l">>, mods |-> <<<<"c","t","r","l">>>>]
    [] fn \in {"cmd_exit"}
         -> [op |-> "press_key", key |-> <<"d">>, mods |-> <<<<"c","t","r","l">>>>]
    [] fn \in {"cmd_suspend"}
         -> [op |-> "press_key", key |-> <<"z">>, mods |-> <<<<"c","t","r","l">>>>]
    [] fn \in {"cmd_find"}
         -> [op |-> "press_key", key |-> <<"f">>, mods |-> <<<<"c","m","d">>>>]
    [] fn \in {"cmd_find_all"}
         -> [op |-> "press_key", key |-> <<"f">>, mods |-> <<<<"c","m","d">>, <<"s","h","i","f","t">>>>]
    [] fn \in {"cmd_goto_file"}
         -> [op |-> "press_key", key |-> <<"p">>, mods |-> <<<<"c","m","d">>>>]
    [] fn \in {"cmd_comment"}
         -> [op |-> "press_key", key |-> <<"/">>, mods |-> <<<<"c","m","d">>>>]
    [] fn \in {"cmd_new_tab"}
         -> [op |-> "press_key", key |-> <<"t">>, mods |-> <<<<"c","m","d">>>>]
    [] fn \in {"cmd_undo"}
         -> [op |-> "press_key", key |-> <<"z">>, mods |-> <<<<"c","m","d">>>>]
    [] fn \in {"cmd_redo"}
         -> [op |-> "press_key", key |-> <<"z">>, mods |-> <<<<"c","m","d">>, <<"s","h","i","f","t">>>>]
    [] fn \in {"cmd_copy"}
         -> [op |-> "press_key", key |-> <<"c">>, mods |-> <<<<"c","m","d">>>>]
    [] fn \in {"cmd_cut"}
         -> [op |-> "press_key", key |-> <<"x">>, mods |-> <<<<"c","m","d">>>>]
    [] fn \in {"cmd_paste"}
         -> [op |-> "press_key", key |-> <<"v">>, mods |-> <<<<"c","m","d">>>>]
    [] fn \in {"cmd_save"}
         -> [op |-> "press_key", key |-> <<"s">>, mods |-> <<<<"c","m","d">>>>]
    [] fn \in {"cmd_select_all"}
         -> [op |-> "press_key", key |-> <<"a">>, mods |-> <<<<"c","m","d">>>>]
    [] fn \in {"cmd_select_line"}
         -> [op |-> "press_key", key |-> <<"l">>, mods |-> <<<<"c","m","d">>>>]
    [] fn \in {"cmd_new_line", "cmd_slap", "cmd_enter"}
         -> [op |-> "press_key", key |-> <<"r","e","t","u","r","n">>, mods |-> <<>>]
    [] fn \in {"cmd_stomp", "cmd_newline"}
         -> [op |-> "press_key", key |-> <<"r","e","t","u","r","n">>, mods |-> <<<<"s","h","i","f","t">>>>]
    [] fn \in {"cmd_up"}
         -> [op |-> "press_key", key |-> <<"u","p">>, mods |-> <<>>]
    [] fn \in {"cmd_down"}
         -> [op |-> "press_key", key |-> <<"d","o","w","n">>, mods |-> <<>>]
    [] fn \in {"cmd_left"}
         -> [op |-> "press_key", key |-> <<"l","e","f","t">>, mods |-> <<>>]
    [] fn \in {"cmd_right"}
         -> [op |-> "press_key", key |-> <<"r","i","g","h","t">>, mods |-> <<>>]
    [] fn \in {"cmd_page_up"}
         -> [op |-> "press_key", key |-> <<"p","a","g","e","u","p">>, mods |-> <<>>]
    [] fn \in {"cmd_page_down"}
         -> [op |-> "press_key", key |-> <<"p","a","g","e","d","o","w","n">>, mods |-> <<>>]
    [] fn \in {"cmd_home"}
         -> [op |-> "press_key", key |-> <<"h","o","m","e">>, mods |-> <<>>]
    [] fn \in {"cmd_head"}
         -> [op |-> "press_key", key |-> <<"l","e","f","t">>, mods |-> <<<<"c","m","d">>>>]
    [] fn \in {"cmd_end"}
         -> [op |-> "press_key", key |-> <<"e","n","d">>, mods |-> <<>>]
    [] fn \in {"cmd_tail"}
         -> [op |-> "press_key", key |-> <<"r","i","g","h","t">>, mods |-> <<<<"c","m","d">>>>]
    [] fn \in {"cmd_delete", "cmd_delete_single", "cmd_backspace"}
         -> [op |-> "press_key", key |-> <<"b","a","c","k","s","p","a","c","e">>, mods |-> <<>>]
    [] fn \in {"cmd_delete_word", "cmd_option_delete"}
         -> [op |-> "press_key", key |-> <<"b","a","c","k","s","p","a","c","e">>, mods |-> <<<<"a","l","t">>>>]
    [] fn \in {"cmd_tab"}
         -> [op |-> "press_key", key |-> <<"t","a","b">>, mods |-> <<>>]
    [] fn \in {"cmd_escape"}
         -> [op |-> "press_key", key |-> <<"e","s","c","a","p","e">>, mods |-> <<>>]
    [] fn \in {"cmd_space"}
         -> [op |-> "press_key", key |-> <<"s","p","a","c","e">>, mods |-> <<>>]
    [] fn \in {"cmd_next_tab"}
         -> [op |-> "press_key", key |-> <<"]">>, mods |-> <<<<"c","m","d">>, <<"s","h","i","f","t">>>>]
    [] fn \in {"cmd_prev_tab"}
         -> [op |-> "press_key", key |-> <<"[">>, mods |-> <<<<"c","m","d">>, <<"s","h","i","f","t">>>>]
    [] fn \in {"cmd_close_tab"}
         -> [op |-> "press_key", key |-> <<"w">>, mods |-> <<<<"c","m","d">>>>]
    [] fn \in {"cmd_next_window"}
         -> [op |-> "press_key", key |-> <<"backtick">>, mods |-> <<<<"c","m","d">>>>]
    [] fn \in {"cmd_next_app", "cmd_switch_app"}
         -> [op |-> "press_key", key |-> <<"t","a","b">>, mods |-> <<<<"c","m","d">>>>]
    [] fn \in {"cmd_prev_app"}
         -> [op |-> "press_key", key |-> <<"t","a","b">>, mods |-> <<<<"c","m","d">>, <<"s","h","i","f","t">>>>]
    [] fn \in {"cmd_pane_left", "cmd_pain_left", "cmd_focus_left"}
         -> [op |-> "press_key", key |-> <<"h">>, mods |-> <<<<"a","l","t">>>>]
    [] fn \in {"cmd_pane_down", "cmd_pain_down", "cmd_focus_down"}
         -> [op |-> "press_key", key |-> <<"j">>, mods |-> <<<<"a","l","t">>>>]
    [] fn \in {"cmd_pane_up", "cmd_pain_up", "cmd_focus_up"}
         -> [op |-> "press_key", key |-> <<"k">>, mods |-> <<<<"a","l","t">>>>]
    [] fn \in {"cmd_pane_right", "cmd_pain_right", "cmd_focus_right"}
         -> [op |-> "press_key", key |-> <<"l">>, mods |-> <<<<"a","l","t">>>>]
    [] OTHER
         -> [op |-> "", key |-> <<>>, mods |-> <<>>]

\* commands._engine: assigned None at import and by nothing else
_engine == "None"

\* str.isdigit()
IsDigit(s) == s # <<>> /\ \A i \in 1..Len(s) : s[i] \in DigitChars

\* int(s) of a digit string
RECURSIVE ParseInt(_)
ParseInt(s) ==
  IF s = <<>> THEN 0 ELSE 10 * ParseInt(SubSeq(s, 1, Len(s) - 1)) + DigitValue(s[Len(s)])

_NUMBER_WORDS(w) ==
  CASE w = <<"o","n","e">> -> 1 [] w = <<"t","w","o">> -> 2 [] w = <<"t","h","r","e","e">> -> 3 [] w = <<"f","o","u","r">> -> 4
    [] w = <<"f","i","v","e">> -> 5 [] w = <<"s","i","x">> -> 6 [] w = <<"s","e","v","e","n">> -> 7 [] w = <<"e","i","g","h","t">> -> 8
    [] w = <<"n","i","n","e">> -> 9 [] w = <<"t","e","n">> -> 10
    [] w = <<"t","o">> -> 2 [] w = <<"t","o","o">> -> 2 [] w = <<"f","o","r">> -> 4
    [] OTHER -> 1

\* _parse_count: a digit string or a number word; anything else counts 1
_parse_count(s) == IF IsDigit(s) THEN ParseInt(s) ELSE _NUMBER_WORDS(Lower(s))

\* _repeat_key(key, count, modifiers): press_key, count times
RECURSIVE _repeat_key(_, _, _)
_repeat_key(key, count, mods) ==
  IF count <= 0 THEN <<>> ELSE press_key(key, mods) \o _repeat_key(key, count - 1, mods)

\* "for _ in range(n): actions.hotkey(key, *modifiers)"
RECURSIVE RepeatHotkey(_, _, _)
RepeatHotkey(key, count, mods) ==
  IF count <= 0 THEN <<>> ELSE hotkey(key, mods) \o RepeatHotkey(key, count - 1, mods)

\* the keyword argument name of a call: [matched, val]
Kw(kw, name) ==
  IF \E i \in 1..Len(kw) : kw[i].name = name
  THEN kw[CHOOSE i \in 1..Len(kw) : kw[i].name = name]
  ELSE [name |-> name, matched |-> FALSE, val |-> <<>>]

\* "n = _parse_count(count.strip()) if count and count.strip() else 1"
OptCount(kw) ==
  LET c == Kw(kw, "count")
  IN  IF c.matched /\ Strip(c.val) # <<>> THEN _parse_count(Strip(c.val)) ELSE 1

\* A handler runs statement by statement, beside the other threads.  The
\* session record st a handler is applied to is [len, posted, mode, ops]:
\* _last_typed_len, the key events posted, the mode, and ops, the statements
\* executed in their order: a key event posted, an assignment to
\* _last_typed_len, a statement that raises, a handler called, the return of
\* the dispatch.
Op(op, ev, n) == [op |-> op, key |-> ev.key, mods |-> ev.mods, n |-> n, exc |-> FALSE]

NoEvent == KeyEvent(0, {})

KeyOps(events) == [i \in 1..Len(events) |-> Op("key", events[i], 0)]

\* "_post_key(keycode, flags)" for each event, "time.sleep" in between
Post(st, events) == [st EXCEPT !.posted = @ \o events, !.ops = @ \o KeyOps(events)]

\* "_last_typed_len = n"
SetLen(st, n) == [st EXCEPT !.len = n, !.ops = Append(@, Op("len", NoEvent, n))]

\* "_engine.set_state(State.COMMAND)" and "(State.DICTATION)": Engine has no
\* set_state and State has no such member, so the statement raises
\* AttributeError, nothing is set, and the dispatcher's except clause logs it
set_state(st, member) == [st EXCEPT !.ops = Append(@, Op("raise", NoEvent, 0))]

\* the events are posted, then the counter is assigned
Typed(st, events, n) == SetLen(Post(st, events), n)

\* _switch_command / _switch_dictation: "if _engine: _engine.set_state(...)"
_switch_command(st) == IF _engine # "None" THEN set_state(st, "COMMAND") ELSE st

_switch_dictation(st) == IF _engine # "None" THEN set_state(st, "DICTATION") ELSE st

\* a scratch that leaves the counter as it was
ScratchKeepsCounter(st) ==
  IF st.len > 0
  THEN Post(st, _repeat_key(<<"b","a","c","k","s","p","a","c","e">>, st.len, <<>>))
  ELSE st

\* _scratch_last: one backspace per character of the last emission
_scratch_last(st) ==
  IF st.len > 0
  THEN SetLen(Post(st, _repeat_key(<<"b","a","c","k","s","p","a","c","e">>, st.len, <<>>)), 0)
  ELSE st

\* _type_punctuation(char)
_type_punctuation(char, st) ==
  IF char \in _OPENING_PUNCT
  THEN Typed(st, type_text(char), Len(char))
  ELSE Typed(st, press_key(<<"b","a","c","k","s","p","a","c","e">>, <<>>) \o type_text(char \o <<" ">>), Len(char) + 1)

\* _type_dictation_then_punct(text, char)
_type_dictation_then_punct(text, char, st) ==
  LET output == text \o char \o <<" ">>
  IN  Typed(st, type_text(output), Len(output))

\* _type_formatted(text)
_type_formatted(text, st) == Typed(st, type_text(text), Len(text))

\* _type_dictation(text)
_type_dictation(text, st) ==
  LET output == text \o <<" ">>
  IN  Typed(st, type_text(output), Len(output))

\* cmd_go_to_line(number)
cmd_go_to_line(number) ==
  hotkey(<<"g">>, <<<<"c","t","r","l">>>>) \o type_text(number) \o press_key(<<"r","e","t","u","r","n">>, <<>>)

\* a zero-argument exact handler
ExactCall(fn, st) ==
  LET b == HandlerBody(fn)
  IN  CASE b.op = "_switch_command" -> _switch_command(st)
        [] b.op = "_switch_dictation" -> _switch_dictation(st)
        [] b.op = "_scratch_last" -> _scratch_last(st)
        [] b.op = "press_key" -> Post(st, press_key(b.key, b.mods))

\* the call, with keyword arguments kw, of the function a handler h stands for
CallFn(h, kw, st) ==
  CASE h.fn = "nato_handler" -> Post(st, type_text(<<h.letter>>))
    [] h.fn = "_type_formatted" -> _type_formatted(h.text, st)
    [] h.fn = "_type_dictation" -> _type_dictation(h.text, st)
    [] h.fn = "_type_punctuation" -> _type_punctuation(h.char, st)
    [] h.fn = "_type_dictation_then_punct" -> _type_dictation_then_punct(h.text, h.char, st)
    [] h.fn = "cmd_type_text" -> Post(st, type_text(Kw(kw, "text").val))
    [] h.fn = "cmd_select_word" ->
         Post(st, _repeat_key(Kw(kw, "direction").val, OptCount(kw), <<<<"s","h","i","f","t">>, <<"a","l","t">>>>))
    [] h.fn = "cmd_select_direction" ->
         Post(st, _repeat_key(Kw(kw, "direction").val, OptCount(kw), <<<<"s","h","i","f","t">>>>))
    [] h.fn = "cmd_word_move" ->
         Post(st, _repeat_key(Kw(kw, "direction").val, OptCount(kw), <<<<"a","l","t">>>>))
    [] h.fn = "cmd_go_n" ->
         Post(st, _repeat_key(Kw(kw, "direction").val, _parse_count(Kw(kw, "count").val), <<>>))
    [] h.fn = "cmd_delete_words" -> Post(st, RepeatHotkey(<<"b","a","c","k","s","p","a","c","e">>, OptCount(kw), <<<<"a","l","t">>>>))
    [] h.fn = "cmd_delete_n" ->
         Post(st, _repeat_key(<<"b","a","c","k","s","p","a","c","e">>, _parse_count(Kw(kw, "count").val), <<>>))
    [] h.fn = "cmd_go_to_line" -> Post(st, cmd_go_to_line(Kw(kw, "number").val))
    [] h.fn = "cmd_select_line" /\ kw # <<>> ->
         Post(st, cmd_go_to_line(Kw(kw, "number").val) \o hotkey(<<"l">>, <<<<"c","m","d">>>>))
    [] OTHER -> ExactCall(h.fn, st)

\* the call made by Engine._process_loop and by run_all: the handler with the
\* match's arguments when it has some and its kind is parameterized, the bare
\* handler otherwise
CallMatch(m, st) ==
  IF m.args # <<>> /\ m.kind = "parameterized"
  THEN CallFn(m.handler, m.args, st)
  ELSE CallFn(m.handler, m.handler.args, st)

\* run_all: the matches of a multi-command, in order
RECURSIVE run_all(_, _)
run_all(subs, st) ==
  IF subs = <<>> THEN st ELSE run_all(Tail(subs), CallMatch(Head(subs), st))

\* the dispatch of a CommandMatch by Engine._process_loop
Dispatch(cmd, st) ==
  IF cmd.handler.fn = "run_all" THEN run_all(cmd.subs, st) ELSE CallMatch(cmd, st)

\* one iteration of execute_actions: "if action.handler: action.handler()"
ExecuteAction(action, st) ==
  IF action.handler = NoHandler THEN st
  ELSE CallFn(action.handler, action.handler.args, st)

\* execute_actions: the actions of a result, in order
RECURSIVE ExecuteActions(_, _)
ExecuteActions(actions, st) ==
  IF actions = <<>> THEN st ELSE ExecuteActions(Tail(actions), ExecuteAction(Head(actions), st))


\* ------------------------------------------------------------------------
\* Handlers that raise.  A run is [st, invoked, exc]: the session record, the
\* positions whose handler has been called, whether an exception is leaving.
\* ------------------------------------------------------------------------

\* the handler at position i is called
Call(st, i) == [st EXCEPT !.ops = Append(@, Op("call", NoEvent, i))]

\* "try: ... handler() ...": a faulty handler raises before it posts a key
TryCall(failed, st, after) ==
  IF failed THEN [exc |-> TRUE, st |-> st] ELSE [exc |-> FALSE, st |-> after]

\* a loop body without its except clause
Propagates(r) == r

\* "except Exception as e: log.error(...)" of execute_actions
ExceptLogError(r) == [r EXCEPT !.exc = FALSE]

\* "except Exception as e: log.error(...)" of run_all
ExceptInRunAll(r) == [r EXCEPT !.exc = FALSE]

\* "except Exception as e: log.error(...)" of Engine._process_loop
ExceptInLoop(r) == [r EXCEPT !.exc = FALSE]

NewRun(st) == [st |-> st, invoked |-> <<>>, exc |-> FALSE]

Called(run, i, r) == [st |-> r.st, invoked |-> Append(run.invoked, i), exc |-> r.exc]

\* one iteration of execute_actions with handlers that may raise
TryExecuteAction(action, i, faulty, run) ==
  IF action.handler = NoHandler THEN run
  ELSE Called(run, i,
              ExceptLogError(TryCall(i \in faulty, Call(run.st, i),
                                     CallFn(action.handler, action.handler.args, Call(run.st, i)))))

\* execute_actions from the i-th action on
RECURSIVE ExecuteFrom(_, _, _, _)
ExecuteFrom(actions, i, faulty, run) ==
  IF i > Len(actions) \/ run.exc THEN run
  ELSE ExecuteFrom(actions, i + 1, faulty, TryExecuteAction(actions[i], i, faulty, run))

\* one iteration of run_all with handlers that may raise
TryCallMatch(m, i, faulty, run) ==
  Called(run, i,
         ExceptInRunAll(TryCall(i \in faulty, Call(run.st, i), CallMatch(m, Call(run.st, i)))))

\* run_all from the i-th match on
RECURSIVE RunAllFrom(_, _, _, _)
RunAllFrom(subs, i, faulty, run) ==
  IF i > Len(subs) \/ run.exc THEN run
  ELSE RunAllFrom(subs, i + 1, faulty, TryCallMatch(subs[i], i, faulty, run))

\* the dispatch of one command by Engine._process_loop, its handler may raise
TryDispatch(cmd, faulty, run) ==
  Called(run, 1,
         ExceptInLoop(TryCall(1 \in faulty, Call(run.st, 1), CallMatch(cmd, Call(run.st, 1)))))

\* the statements of a finished run and its return; exc: an exception leaves
Script(st, exc) == Append(st.ops, [Op("return", NoEvent, 0) EXCEPT !.exc = exc])

\* ------------------------------------------------------------------------
\* Bounds and inputs
\* ------------------------------------------------------------------------

\* words per normalized utterance handed to _match_single
MaxWords == 4

\* phrases per raw transcript handed to the two matchers
MaxPhrases == 3

\* phrases per raw transcript handed to IntentParser.parse
MaxPieces == 2

\* items per JSON array returned by the remote provider
MaxItems == 2

SeqsUpTo(S, n) == UNION {[1..k -> S] : k \in 1..n}

\* normalized utterances: words of the movement and deletion commands
CommandVocab ==
  {<<"g","o">>, <<"d","e","l","e","t","e">>, <<"w","o","r","d">>, <<"w","o","r","d","s">>, <<"l","e","f","t">>, <<"u","p">>, <<"3">>, <<"t","w","o">>}

NormalizedInputs == {Join(ws, <<" ">>) : ws \in SeqsUpTo(CommandVocab, MaxWords)}

\* raw transcripts for the matchers: commands of every tier, mode switches,
\* scratch, punctuation words and prose as a recognizer writes them
RawPhrases ==
  {<<"s","a","v","e">>, <<"s","c","r","a","t","c","h"," ","t","h","a","t">>, <<"D","i","c","t","a","t","i","o","n"," ","m","o","d","e",".">>, <<"g","o"," ","3"," ","l","e","f","t">>, <<"s","n","a","k","e"," ","f","o","o">>,
   <<"a","l","p","h","a"," ","b","r","a","v","o">>, <<"c","o","m","m","a">>, <<"d","a","s","h">>, <<"H","e","l","l","o",",">>, <<"o","p","e","n"," ","p","a","r","e","n">>}

RawInputs == {Join(ps, <<" ">>) : ps \in SeqsUpTo(RawPhrases, MaxPhrases)}

\* raw transcripts with a mark the recognizer wrote as a token of its own
MarkedInputs ==
  {<<"-"," ","g","o"," ","w","o","r","d"," ","l","e","f","t">>, <<"g","o"," ","3"," ","l","e","f","t"," ",".">>, <<"-"," ","d","e","l","e","t","e"," ","t","w","o"," ","w","o","r","d","s">>, <<"d","e","l","e","t","e"," ","3"," ",".">>,
   <<"-"," ","d","e","l","e","t","e"," ","w","o","r","d">>, <<"s","a","v","e"," ",".">>, <<"-"," ","s","n","a","k","e"," ","f","o","o"," ","b","a","r">>, <<"a","l","p","h","a"," ","b","r","a","v","o"," ",".">>}

\* raw transcripts for parse: phrases joined by a space or by sentence
\* punctuation, with or without a final full stop
ParsePhrases ==
  {<<"s","a","v","e">>, <<"U","n","d","o">>, <<"g","o"," ","l","e","f","t">>, <<"d","e","l","e","t","e">>, <<"a","l","p","h","a">>, <<"t","y","p","e"," ","h","i">>, <<"s","n","a","k","e"," ","f","o","o">>,
   <<"p","l","e","a","s","e"," ","s","a","v","e">>, <<"h","e","l","l","o"," ","t","h","e","r","e">>, <<"-">>}

Separators == {<<" ">>, <<","," ">>, <<"."," ">>}

Endings == {<<>>, <<".">>, <<" ",".">>}

RECURSIVE JoinWith(_, _)
JoinWith(ps, seps) ==
  IF Len(ps) = 1 THEN ps[1] ELSE ps[1] \o seps[1] \o JoinWith(Tail(ps), Tail(seps))

\* the phrases a transcript goes on with after its second
LaterPhrases == {<<"s","a","v","e">>, <<"U","n","d","o">>, <<"h","e","l","l","o"," ","t","h","e","r","e">>}

PhraseSeqs(k) ==
  {ps \in [1..k -> ParsePhrases] : \A i \in 3..k : ps[i] \in LaterPhrases}

ParseInputs ==
  UNION {{JoinWith(ps, seps) \o e :
            ps \in PhraseSeqs(k), seps \in [1..(k - 1) -> Separators], e \in Endings} :
         k \in 1..MaxPieces}

\* items of a remote reply: a registry command, three parameterized commands
\* with their arguments, a command the registry does not know, dictation, empty
\* dictation, an object of another kind, a command whose name is no string,
\* two commands whose args are a string, and an array element that is no
\* object
ReplyItems ==
  {Item(TRUE, "command", TRUE, <<"s","a","v","e">>, TRUE, <<>>, <<>>),
   Item(TRUE, "command", TRUE, <<"g","o","_","n","_","d","i","r","e","c","t","i","o","n">>, TRUE,
        <<Arg("count", <<"t","h","r","e","e">>), Arg("direction", <<"u","p">>)>>, <<>>),
   Item(TRUE, "command", TRUE, <<"d","e","l","e","t","e","_","w","o","r","d","s">>, TRUE, <<Arg("count", <<"t","w","o">>)>>, <<>>),
   Item(TRUE, "command", TRUE, <<"w","o","r","d","_","m","o","v","e">>, TRUE,
        <<Arg("count", <<"t","w","o">>), Arg("direction", <<"l","e","f","t">>)>>, <<>>),
   Item(TRUE, "command", TRUE, <<"f","r","o","b","n","i","c","a","t","e">>, TRUE, <<>>, <<>>),
   Item(TRUE, "dictation", TRUE, <<>>, TRUE, <<>>, <<"h","i">>),
   Item(TRUE, "dictation", TRUE, <<>>, TRUE, <<>>, <<>>),
   Item(TRUE, "note", TRUE, <<>>, TRUE, <<>>, <<>>),
   Item(TRUE, "command", FALSE, <<>>, TRUE, <<>>, <<>>),
   Item(TRUE, "command", TRUE, <<"u","n","d","o">>, FALSE, <<>>, <<>>),
   Item(TRUE, "command", TRUE, <<"d","e","l","e","t","e","_","w","o","r","d","s">>, FALSE, <<>>, <<>>),
   Item(FALSE, "", TRUE, <<>>, TRUE, <<>>, <<>>)}

\* what complete() does: raise, return None, return "", return text
Replies ==
  {Reply("raise", Json("invalid", <<>>)), Reply("none", Json("invalid", <<>>)),
   Reply("empty", Json("invalid", <<>>)),
   Reply("text", Json("invalid", <<>>)), Reply("text", Json("notlist", <<>>)),
   Reply("text", Json("list", <<>>))}
  \cup {Reply("text", Json("list", items)) : items \in SeqsUpTo(ReplyItems, MaxItems)}

\* the replies with at most one item
ShortReplies == {rp \in Replies : Len(rp.data.items) <= 1}

\* transcripts for the remote path: with and without a command word,
\* resolved and not resolved by the fast path
SlmInputs ==
  {<<"p","l","e","a","s","e"," ","s","a","v","e">>, <<"G","o"," ","u","p"," ","t","h","r","e","e",","," ","o","k","?">>, <<"d","e","l","e","t","e"," ","t","h","a","t"," ","l","i","n","e"," ","n","o","w">>, <<"h","e","l","l","o"," ","t","h","e","r","e">>,
   <<"s","a","v","e">>, <<"u","n","d","o",","," ","h","e","l","l","o">>, <<"s","n","a","k","e",".">>}

NoReply == Reply("none", Json("invalid", <<>>))

\* utterances of a session at the engine
EngineUtterances ==
  {<<"s","a","v","e">>, <<"u","n","d","o","."," ","r","e","d","o",".">>, <<"s","c","r","a","t","c","h"," ","t","h","a","t">>, <<"s","c","r","a","t","c","h">>, <<"h","e","l","l","o"," ","w","o","r","l","d">>, <<"H","e","l","l","o">>,
   <<"s","n","a","k","e"," ","f","o","o"," ","b","a","r">>, <<"a","l","p","h","a">>, <<"c","a","p"," ","a","l","p","h","a"," ","b","r","a","v","o">>, <<"t","y","p","e"," ","H","i"," ","t","h","e","r","e">>, <<"i","n","s","e","r","t"," ","s","p","a","c","e">>,
   <<"g","o"," ","3"," ","l","e","f","t">>, <<"d","e","l","e","t","e"," ","t","w","o"," ","w","o","r","d","s">>, <<"d","i","c","t","a","t","i","o","n"," ","m","o","d","e">>, <<"d","i","c","t","a","t","e">>, <<"c","o","m","m","a","n","d"," ","m","o","d","e">>,
   <<"c","o","m","m","a","n","d","s">>, <<"c","o","m","m","a">>, <<"h","e","l","l","o"," ","c","o","m","m","a">>, <<"o","p","e","n"," ","p","a","r","e","n">>, <<"s","a","y"," ","o","p","e","n"," ","p","a","r","e","n">>,
   <<"h","e","l","l","o",","," ","s","c","r","a","t","c","h"," ","t","h","a","t">>, <<"g","o"," ","l","e","f","t",","," ","s","a","v","e",".">>, <<"t","i","t","l","e"," ","f","o","o"," ","b","a","r","."," ","s","c","r","a","t","c","h",".">>}

\* ------------------------------------------------------------------------
\* State
\* ------------------------------------------------------------------------

VARIABLES
  pc,              \* where the process is
  utterance,       \* the transcript being resolved
  via,             \* the resolver, or the tier of parse, that produced outcome
  outcome,         \* <<result>> of the resolution, <<>> for None or before it
  _last_typed_len, \* commands._last_typed_len
  posted,          \* key events posted by the last dispatch
  mode,            \* the mode utterances are resolved under; no statement assigns it
  len_before,      \* _last_typed_len when the last dispatch began
  prev,            \* the kind of the dispatch before the last one
  _use_slm,        \* IntentParser._use_slm
  slm_reply,       \* <<[available, reply]>>: what the provider answered _slm_path
  calls,           \* invocations of complete() during this parse
  raised,          \* an exception left parse or the executor
  faulty,          \* positions of the handlers that raise when called
  invoked,         \* positions of the handlers called by the last dispatch
  pending,         \* the statements the running dispatch has still to execute
  registered,      \* assignments to _EXACT made while the registry is constructed
  field,           \* the key strokes the focused field has received and still holds
  field_before,    \* field when the last utterance was heard
  _state,          \* Engine._state
  _audio_q,        \* blocks waiting in Engine._audio_q
  segments,        \* speech segments waiting in the VAD
  loop             \* where _process_loop is

vars ==
  <<pc, utterance, via, outcome, _last_typed_len, posted, mode, len_before, prev,
    _use_slm, slm_reply, calls, raised, faulty, invoked, pending, registered, field,
    field_before,
    _state, _audio_q, segments, loop>>

executor == <<faulty, invoked, pending>>

engine == <<_state, _audio_q, segments, loop>>

typing == <<field, field_before>>

typist == <<_last_typed_len, posted, mode, len_before, prev, executor, registered, typing>>

session == <<typist, engine>>

parser == <<_use_slm, slm_reply, calls, raised>>

\* Engine.__init__; run() has not been called
EngineInit ==
  /\ _state = "PAUSED"
  /\ _audio_q = 0
  /\ segments = 0
  /\ loop = "init"

SessionInit ==
  /\ _last_typed_len = 0
  /\ posted = <<>>
  /\ mode = "Command"
  /\ len_before = 0
  /\ prev = "none"
  /\ faulty = {}
  /\ invoked = <<>>
  /\ pending = <<>>
  /\ registered = <<>>
  /\ field = <<>>
  /\ field_before = <<>>
  /\ EngineInit

ParserInit ==
  /\ slm_reply = <<>>
  /\ calls = 0
  /\ raised = FALSE

\* ------------------------------------------------------------------------
\* SpecMatch: the matchers of commands.py applied to one utterance
\* ------------------------------------------------------------------------

InitMatch ==
  /\ pc = "input"
  /\ utterance \in NormalizedInputs \cup RawInputs \cup MarkedInputs
  /\ via = ""
  /\ outcome = <<>>
  /\ _use_slm = FALSE
  /\ SessionInit
  /\ ParserInit

\* "result = _match_single(normalized)" of match: _match_single is handed what
\* _normalize made of the transcript
ApplyMatchSingle ==
  /\ pc = "input"
  /\ via' = "_match_single"
  /\ outcome' = _match_single(_normalize(utterance))
  /\ pc' = "matched"
  /\ UNCHANGED <<utterance, session, parser>>

ApplyMatch ==
  /\ pc = "input"
  /\ via' = "match"
  /\ outcome' = <<match(utterance)>>
  /\ pc' = "matched"
  /\ UNCHANGED <<utterance, session, parser>>

ApplyMatchDictation ==
  /\ pc = "input"
  /\ via' = "match_dictation_mode"
  /\ outcome' = <<match_dictation_mode(utterance)>>
  /\ pc' = "matched"
  /\ UNCHANGED <<utterance, session, parser>>

NextMatch == ApplyMatchSingle \/ ApplyMatch \/ ApplyMatchDictation

SpecMatch == InitMatch /\ [][NextMatch]_vars

\* ------------------------------------------------------------------------
\* SpecParse: IntentParser.parse, tier by tier
\* ------------------------------------------------------------------------

InitParse ==
  /\ pc = "fast"
  /\ utterance \in ParseInputs
  /\ via = "parse"
  /\ outcome = <<>>
  /\ \E flag \in BOOLEAN, available \in BOOLEAN : _use_slm = InitUseSlm(flag, available)
  /\ SessionInit
  /\ ParserInit

\* a fast path that calls the handlers of its actions as it builds them
EagerFastPath ==
  /\ pc = "fast"
  /\ outcome' = _fast_path(utterance)
  /\ via' = IF outcome' # <<>> THEN "_fast_path" ELSE via
  /\ pc' = IF outcome' # <<>> THEN "done" ELSE "escalate"
  /\ \E st \in {ExecuteActions(IF outcome' # <<>> THEN outcome'[1].actions ELSE <<>>,
                                [len |-> _last_typed_len, posted |-> <<>>, mode |-> mode, ops |-> <<>>])} :
       /\ _last_typed_len' = st.len
       /\ posted' = st.posted
       /\ mode' = st.mode
  /\ UNCHANGED <<utterance, len_before, prev, executor, registered, typing, engine, parser>>

\* "result = self._fast_path(utterance); if result: return result"
FastPath ==
  /\ pc = "fast"
  /\ outcome' = _fast_path(utterance)
  /\ via' = IF outcome' # <<>> THEN "_fast_path" ELSE via
  /\ pc' = IF outcome' # <<>> THEN "done" ELSE "escalate"
  /\ UNCHANGED <<utterance, session, parser>>

\* the condition of the escalation is false
SkipSlm ==
  /\ pc = "escalate"
  /\ ~(_use_slm /\ _has_command_words(utterance))
  /\ pc' = "fallback"
  /\ UNCHANGED <<utterance, via, outcome, session, parser>>

\* "result = self._slm_path(utterance, context); if result: return result"
SlmPath(replies) ==
  /\ pc = "escalate"
  /\ _use_slm /\ _has_command_words(utterance)
  /\ \E available \in BOOLEAN :
       \E rp \in IF available THEN replies ELSE {NoReply} :
         \E r \in {_slm_path(available, rp)} :
           /\ calls' = calls + r.calls
           /\ slm_reply' = <<[available |-> available, reply |-> rp]>>
           /\ raised' = r.exc
           /\ outcome' = r.val
           /\ via' = IF r.val # <<>> THEN "_slm_path" ELSE via
           /\ pc' = IF r.exc THEN "raised" ELSE IF r.val # <<>> THEN "done" ELSE "fallback"
  /\ UNCHANGED <<utterance, session, _use_slm>>

\* "result = self._fallback(utterance); return result"
Fallback ==
  /\ pc = "fallback"
  /\ outcome' = <<_fallback(utterance)>>
  /\ via' = "_fallback"
  /\ pc' = "done"
  /\ UNCHANGED <<utterance, session, parser>>

NextParse == FastPath \/ SkipSlm \/ SlmPath(ShortReplies) \/ Fallback

SpecParse == InitParse /\ [][NextParse]_vars

\* ------------------------------------------------------------------------
\* SpecSlm: parse with every reply of the remote provider
\* ------------------------------------------------------------------------

InitSlm ==
  /\ pc = "fast"
  /\ utterance \in SlmInputs
  /\ via = "parse"
  /\ outcome = <<>>
  /\ \E flag \in BOOLEAN, available \in BOOLEAN : _use_slm = InitUseSlm(flag, available)
  /\ SessionInit
  /\ ParserInit

NextSlm == FastPath \/ SkipSlm \/ SlmPath(Replies) \/ Fallback

SpecSlm == InitSlm /\ [][NextSlm]_vars

\* ------------------------------------------------------------------------
\* Spec: a session.  Utterances are resolved and their handlers run, one
\* utterance at a time.
\* ------------------------------------------------------------------------

\* the handlers a resolution hands the dispatcher, as their function names
HandlerFns(v, c) ==
  IF c = <<>> THEN <<>>
  ELSE IF v = "parse" THEN [i \in 1..Len(c[1].actions) |-> c[1].actions[i].handler.fn]
  ELSE IF c[1].handler.fn = "run_all"
  THEN [i \in 1..Len(c[1].subs) |-> c[1].subs[i].handler.fn]
  ELSE <<c[1].handler.fn>>

\* what kind of dispatch the last one was
DispatchKind(v, c) ==
  LET fns == HandlerFns(v, c)
  IN  IF c = <<>> THEN "none"
      ELSE IF Len(fns) = 1 /\ HandlerBody(fns[1]).op = "_scratch_last" THEN "scratch"
      ELSE IF Len(fns) = 1 /\ HandlerBody(fns[1]).op = "_switch_dictation" THEN "to_dictation"
      ELSE IF Len(fns) = 1 /\ HandlerBody(fns[1]).op = "_switch_command" THEN "to_command"
      ELSE "other"

Init ==
  /\ pc = "listen"
  /\ utterance = <<>>
  /\ via = ""
  /\ outcome = <<>>
  /\ _use_slm = FALSE
  /\ SessionInit
  /\ ParserInit

Heard(t, v, c) ==
  /\ pc = "listen"
  /\ utterance' = t
  /\ via' = v
  /\ outcome' = c
  /\ prev' = DispatchKind(via, outcome)
  /\ len_before' = _last_typed_len
  /\ field_before' = field
  /\ posted' = <<>>
  /\ pc' = "resolved"
  /\ UNCHANGED <<_last_typed_len, mode, parser, executor, registered, field, engine>>

\* Engine._process_loop: "cmd = match(text)"
HearCommand == \E t \in EngineUtterances : Heard(t, "match", <<match(t)>>)

\* a caller of match_dictation_mode
HearDictation ==
  \E t \in EngineUtterances : Heard(t, "match_dictation_mode", <<match_dictation_mode(t)>>)

\* a caller of IntentParser.parse, rules only
HearParse ==
  \E t \in EngineUtterances : Heard(t, "parse", parse(_use_slm, t, FALSE, NoReply).result)

\* the session a dispatch starts from
Session == [len |-> _last_typed_len, posted |-> <<>>, mode |-> mode, ops |-> <<>>]

\* a dispatch begins: the statements it will execute are those of script
Begin(script) ==
  /\ pending' = script
  /\ posted' = <<>>
  /\ len_before' = _last_typed_len
  /\ pc' = "running"
  /\ UNCHANGED <<utterance, via, outcome, _last_typed_len, mode, prev, parser, faulty, invoked,
                 registered, typing, engine>>

\* Engine._process_loop: the dispatch of cmd
RunCommand ==
  /\ pc = "resolved"
  /\ via # "parse"
  /\ Begin(Script(Dispatch(outcome[1], Session), FALSE))

\* execute_actions(result)
RunActions ==
  /\ pc = "resolved"
  /\ via = "parse"
  /\ Begin(Script(ExecuteActions(outcome[1].actions, Session), FALSE))

\* what one statement o does to the session
Executed(o) ==
  /\ posted' = IF o.op = "key" THEN Append(posted, KeyEvent(o.key, o.mods)) ELSE posted
  /\ _last_typed_len' = IF o.op = "len" THEN o.n ELSE _last_typed_len
  /\ mode' = mode
  /\ invoked' = IF o.op = "call" THEN Append(invoked, o.n) ELSE invoked
  /\ raised' = IF o.op = "return" THEN (raised \/ o.exc) ELSE raised
  /\ pending' = Tail(pending)

\* the running dispatch executes its next statement: a key is posted, the
\* counter is assigned, a statement raises, a handler is called, or the dispatch
\* returns
HandlerStep ==
  /\ pc = "running"
  /\ pending # <<>>
  /\ Executed(Head(pending))
  /\ pc' = IF Head(pending).op # "return" THEN "running"
           ELSE IF Head(pending).exc THEN "raised" ELSE "listen"
  /\ UNCHANGED <<utterance, via, outcome, len_before, prev, _use_slm, slm_reply, calls, faulty,
                 registered, typing, engine>>

Next == HearCommand \/ HearDictation \/ HearParse \/ RunCommand \/ RunActions \/ HandlerStep

Spec == Init /\ [][Next]_vars


\* ------------------------------------------------------------------------
\* SpecExec: the executors with handlers that raise.  A resolved utterance
\* is dispatched once; the handlers at the positions in faulty raise.
\* ------------------------------------------------------------------------

\* handlers per dispatch that may be faulty
MaxActions == 3

ExecUtterances ==
  EngineUtterances \cup
  {<<"u","n","d","o","."," ","r","e","d","o","."," ","s","a","v","e",".">>, <<"a","l","p","h","a","."," ","b","r","a","v","o","."," ","s","c","r","a","t","c","h"," ","t","h","a","t",".">>, <<"g","o"," ","3"," ","l","e","f","t",","," ","d","e","l","e","t","e"," ","t","w","o"," ","w","o","r","d","s",".">>}

InitExec ==
  /\ pc = "resolved"
  /\ utterance \in ExecUtterances
  /\ via \in {"match", "parse"}
  /\ outcome = IF via = "match" THEN <<match(utterance)>>
               ELSE parse(FALSE, utterance, FALSE, NoReply).result
  /\ _use_slm = FALSE
  /\ _last_typed_len = 0
  /\ posted = <<>>
  /\ mode = "Command"
  /\ len_before = 0
  /\ prev = "none"
  /\ faulty \in SUBSET (1..MaxActions)
  /\ invoked = <<>>
  /\ pending = <<>>
  /\ registered = <<>>
  /\ field = <<>>
  /\ field_before = <<>>
  /\ EngineInit
  /\ ParserInit

\* the dispatch of a run whose handlers may raise begins
RanFaulty(run) == Begin(Script(run.st, run.exc))

\* execute_actions(result)
ExecuteFaulty ==
  /\ pc = "resolved"
  /\ via = "parse"
  /\ RanFaulty(ExecuteFrom(outcome[1].actions, 1, faulty, NewRun(Session)))

\* Engine._process_loop: the dispatch of a multi-command, whose handler is run_all
RunAllFaulty ==
  /\ pc = "resolved"
  /\ via = "match"
  /\ outcome[1].handler.fn = "run_all"
  /\ RanFaulty(ExceptInLoop(RunAllFrom(outcome[1].subs, 1, faulty, NewRun(Session))))

\* Engine._process_loop: the dispatch of a single command
DispatchFaulty ==
  /\ pc = "resolved"
  /\ via = "match"
  /\ outcome[1].handler.fn # "run_all"
  /\ RanFaulty(TryDispatch(outcome[1], faulty, NewRun(Session)))

NextExec == ExecuteFaulty \/ RunAllFaulty \/ DispatchFaulty \/ HandlerStep

SpecExec == InitExec /\ [][NextExec]_vars

\* ------------------------------------------------------------------------
\* SpecText: the text functions of commands.py applied to one utterance
\* ------------------------------------------------------------------------

\* tokens per utterance handed to the text functions
MaxTokens == 3

\* raw text: words in either case, punctuation attached to a word and
\* standing alone, extra spaces
NormalizeTokens == {<<"G","o">>, <<"L","E","F","T",".">>, <<"l","e","f","t">>, <<"s","a","v","e">>, <<".">>, <<"-">>, <<" ">>}

\* phonetic utterances: alphabet words, capitalization prefixes, another word
NatoTokens == {<<"s","i","e","r","r","a">>, <<"a","l","p","h","a">>, <<"b","r","a","v","o">>, <<"c","a","p">>, <<"b","i","g">>, <<"s","a","v","e">>}

\* dictated utterances: prose and punctuation words
PunctTokens == {<<"h","e","l","l","o">>, <<"d","a","s","h">>, <<"c","o","l","o","n">>, <<"s","e","m","i">>, <<"c","o","m","m","a">>, <<"o","p","e","n">>, <<"p","a","r","e","n">>}

TokenInputs(tokens) == {Join(ts, <<" ">>) : ts \in SeqsUpTo(tokens, MaxTokens)}

\* transcripts that begin with a keyword of the type/insert form, or nearly
TypeKeywords == {<<"t","y","p","e">>, <<"T","y","p","e">>, <<"i","n","s","e","r","t">>, <<"I","N","S","E","R","T">>, <<"t","y","p","e","d">>}

TypedTexts ==
  {<<"H","i"," ","t","h","e","r","e",".">>, <<"s","a","v","e">>, <<"S","p","a","c","e">>, <<"t","a","b",".">>, <<"e","n","t","e","r">>, <<"n","e","w","l","i","n","e">>, <<"n","e","w"," ","l","i","n","e">>,
   <<"s","p","a","c","e"," ",".">>}

Blanks == {<<>>, <<" ">>}

TypeInputs ==
  {lead \o kw \o <<" ">> \o gap \o text \o trail :
     lead \in Blanks, kw \in TypeKeywords, gap \in Blanks, text \in TypedTexts,
     trail \in Blanks}

\* transcripts that begin with a formatter key, or are one, as a recognizer
\* writes them
FormatInputs ==
  {<<"-"," ","s","n","a","k","e"," ","f","o","o"," ","b","a","r">>, <<"-"," ","s","n","a","k","e"," ","c","a","s","e"," ","f","o","o">>, <<"s","n","a","k","e"," ","c","a","s","e"," ","f","o","o"," ","b","a","r">>, <<"s","n","a","k","e"," ","f","o","o"," ","b","a","r">>,
   <<"s","n","a","k","e"," ","c","a","s","e"," ","f","o","o">>, <<"s","n","a","k","e"," ","c","a","s","e">>, <<"s","n","a","k","e">>,
   <<"a","l","l"," ","c","a","p","s">>, <<"a","l","l"," ","c","a","p","s"," ","f","o","o">>, <<"t","i","t","l","e"," ","c","a","s","e">>, <<"u","p","p","e","r"," ","c","a","s","e"," ","f","o","o"," ","b","a","r">>, <<"d","o","t"," ","c","a","s","e"," ","a"," ","b">>,
   <<"d","o","t">>, <<"c","a","m","e","l"," ","F","o","o"," ","B","a","r">>, <<"S","n","a","k","e"," ","C","a","s","e"," ","F","o","o"," ","B","a","r">>, <<"s","n","a","k","e"," ","f","o","o","-","b","a","r"," ","b","a","z">>,
   <<"s","n","a","k","e"," ","c","a","s","e"," ","f","o","o"," ","b","a","r",".">>, <<"k","e","b","a","b"," ","i","t","'","s"," ","d","o","n","e">>, <<"s","n","a","k","e","s"," ","f","o","o">>}

\* dictated transcripts that end with a punctuation phrase, some with marks
\* the recognizer wrote as tokens of their own
TrailingInputs ==
  {<<"H","e","l","l","o"," ","W","o","r","l","d",","," ","c","o","m","m","a",".">>, <<"h","e","l","l","o"," ","w","o","r","l","d"," ","c","o","m","m","a">>, <<"h","e","l","l","o"," ","-"," ","w","o","r","l","d"," ","c","o","m","m","a">>,
   <<"W","e","l","l"," ","h","e","l","l","o"," ","q","u","e","s","t","i","o","n"," ","m","a","r","k">>, <<"y","e","s"," ","&"," ","n","o"," ","p","e","r","i","o","d">>, <<"-"," ","h","e","l","l","o"," ","c","o","m","m","a">>,
   <<"h","e","l","l","o"," ","o","p","e","n"," ","p","a","r","e","n">>, <<"o","n","e"," ","t","w","o"," ","t","h","r","e","e"," ","n","e","w"," ","l","i","n","e">>, <<"-"," ","d","a","s","h">>, <<"d","a","s","h"," ",".">>,
   <<"-"," ","h","e","l","l","o"," ","d","a","s","h">>, <<"-"," ","s","e","m","i"," ","c","o","l","o","n">>}

\* transcripts of several sentences, some of which no rule matches, and
\* spelled letters beside a mark the recognizer wrote as a token of its own
SeveralInputs ==
  {<<"S","a","v","e","."," ","U","n","d","o",".">>, <<"g","o"," ","3"," ","l","e","f","t",","," ","s","a","v","e">>, <<"h","e","l","l","o",","," ","s","a","v","e">>, <<"a","l","p","h","a","."," ","b","r","a","v","o">>,
   <<"s","n","a","k","e"," ","f","o","o"," ","b","a","r","."," ","s","c","r","a","t","c","h"," ","t","h","a","t">>, <<"s","a","v","e",","," ",".">>, <<"h","e","l","l","o","."," ","w","o","r","l","d">>, <<"s","a","v","e","!">>,
   <<"g","o"," ","l","e","f","t",";"," ","d","e","l","e","t","e"," ","t","w","o"," ","w","o","r","d","s","?">>, <<"-"," ",","," ","s","a","v","e">>, <<"t","y","p","e"," ","h","i",","," ","s","a","v","e">>, <<"s","a","v","e",","," ","t","y","p","e"," ","h","i">>,
   <<"h","e","l","l","o"," ","t","h","e","r","e",","," ","c","a","p"," ","a","l","p","h","a">>, <<"s","i","e","r","r","a"," ","a","l","p","h","a",","," ","h","e","l","l","o">>, <<"-"," ","a","l","p","h","a"," ","b","r","a","v","o">>,
   <<"a","l","p","h","a"," ","b","r","a","v","o"," ",".">>, <<"-"," ","c","a","p"," ","b","r","a","v","o"," ","s","i","e","r","r","a">>}

TextInputs ==
  TokenInputs(NormalizeTokens) \cup TokenInputs(NatoTokens) \cup TokenInputs(PunctTokens)
  \cup TypeInputs \cup FormatInputs \cup TrailingInputs \cup SeveralInputs

InitText ==
  /\ pc = "input"
  /\ utterance \in TextInputs
  /\ via = ""
  /\ outcome = <<>>
  /\ _use_slm = FALSE
  /\ SessionInit
  /\ ParserInit

Applied(fn, result) ==
  /\ pc = "input"
  /\ via' = fn
  /\ outcome' = result
  /\ pc' = "matched"
  /\ UNCHANGED <<utterance, session, parser>>

\* _normalize(text)
ApplyNormalize == Applied("_normalize", <<_normalize(utterance)>>)

\* "nato_result = _try_nato_sequence(normalized)" of _match_single and
\* _fast_path: the function is handed what _normalize made of the transcript
ApplyNato == Applied("_try_nato_sequence", _try_nato_sequence(_normalize(utterance)))

\* "punct_match = _match_trailing_punctuation(normalized)" of
\* match_dictation_mode: the function is handed what _normalize made of the
\* transcript
ApplyTrailingPunct ==
  Applied("_match_trailing_punctuation", _match_trailing_punctuation(_normalize(utterance)))

\* "fmt_result = try_format(normalized)" of _match_single and _fast_path:
\* try_format is handed what _normalize made of the transcript
ApplyTryFormat == Applied("try_format", try_format(_normalize(utterance)))

\* IntentParser._fast_path(transcript)
ApplyFastPath == Applied("_fast_path", _fast_path(utterance))

NextText ==
  \/ ApplyNormalize
  \/ ApplyNato
  \/ ApplyTrailingPunct
  \/ ApplyTryFormat
  \/ ApplyMatchDictation
  \/ ApplyMatch
  \/ ApplyFastPath

SpecText == InitText /\ [][NextText]_vars

\* ------------------------------------------------------------------------
\* SpecRegistry: the construction of the exact table.  The decorator and
\* the phonetic loops assign entries one after the other; the other
\* specifications read the finished table through _EXACT.
\* ------------------------------------------------------------------------

\* assignments per construction
MaxRegistrations == 3

\* phrases and functions handed to the decorator
RegisteredNames == {<<"s","a","v","e">>, <<"u","n","d","o">>, <<"a","l","p","h","a">>}

RegisteredFns == {"cmd_save", "cmd_undo"}

\* entries of _NATO the first loop goes through
RegisteredWords == {1, 2}

InitRegistry ==
  /\ pc = "import"
  /\ utterance = <<>>
  /\ via = ""
  /\ outcome = <<>>
  /\ _use_slm = FALSE
  /\ _last_typed_len = 0
  /\ posted = <<>>
  /\ mode = "Command"
  /\ len_before = 0
  /\ prev = "none"
  /\ faulty = {}
  /\ invoked = <<>>
  /\ pending = <<>>
  /\ registered = <<>>
  /\ field = <<>>
  /\ field_before = <<>>
  /\ EngineInit
  /\ ParserInit

\* "_EXACT[name] = fn" and its like: the assignment is made, nothing is
\* checked and nothing is raised
Assigned(key, fn, letter) ==
  /\ pc = "import"
  /\ Len(registered) < MaxRegistrations
  /\ registered' = Append(registered, [key |-> key, fn |-> fn, letter |-> letter])
  /\ UNCHANGED <<pc, utterance, via, outcome, _last_typed_len, posted, mode, len_before, prev,
                 executor, parser, typing, engine>>

\* @exact(name) applied to fn
RegisterExact == \E name \in RegisteredNames, fn \in RegisteredFns : Assigned(name, fn, "")

\* "for _nato_word, _letter in _NATO.items(): _EXACT[_nato_word] = ..."
RegisterNato ==
  \E i \in RegisteredWords : Assigned(_NATO[i].word, "nato_handler", _NATO[i].letter)

\* "for _prefix in (...): for _nato_word, _letter in _NATO.items():
\*  _EXACT[f"{_prefix} {_nato_word}"] = _make_nato_handler(_letter.upper())"
RegisterCapNato ==
  \E p \in 1..Len(CapPrefixList), i \in RegisteredWords :
    Assigned(CapPrefixList[p] \o <<" ">> \o _NATO[i].word, "nato_handler",
             UpperChar(_NATO[i].letter))

\* the module body has run
Imported ==
  /\ pc = "import"
  /\ pc' = "ready"
  /\ UNCHANGED <<utterance, via, outcome, session, parser>>

NextRegistry == RegisterExact \/ RegisterNato \/ RegisterCapNato \/ Imported

SpecRegistry == InitRegistry /\ [][NextRegistry]_vars

\* ------------------------------------------------------------------------
\* SpecTyping: a dictation-mode session typing into one text field.  Each
\* utterance is resolved by match_dictation_mode and dispatched, and the
\* field takes the key events the handlers post.
\* ------------------------------------------------------------------------

MaxField == 4

\* what the focused field does with the key event _post_key posts to it: a
\* backspace takes away the stroke before the cursor, any other key is a
\* stroke the field receives
Receive(text, ev) ==
  IF ev = KeyEvent(_KEYCODES[<<"b","a","c","k","s","p","a","c","e">>], {})
  THEN IF text = <<>> THEN text ELSE SubSeq(text, 1, Len(text) - 1)
  ELSE Append(text, ev)

DictatedUtterances == {<<"h","e","l","l","o">>, <<"H","i">>}

BracketUtterances == {<<"o","p","e","n"," ","b","r","a","c","k","e","t">>, <<"o","p","e","n"," ","p","a","r","e","n">>, <<"h","e","l","l","o"," ","o","p","e","n"," ","b","r","a","c","k","e","t">>}

PunctUtterances == {<<"c","o","m","m","a">>, <<"p","e","r","i","o","d">>, <<"q","u","e","s","t","i","o","n"," ","m","a","r","k">>, <<"h","e","l","l","o"," ","c","o","m","m","a">>}

ScratchUtterances == {<<"s","c","r","a","t","c","h"," ","t","h","a","t">>}

InitTyping ==
  /\ pc = "listen"
  /\ utterance = <<>>
  /\ via = ""
  /\ outcome = <<>>
  /\ _use_slm = FALSE
  /\ _last_typed_len = 0
  /\ posted = <<>>
  /\ mode = "Dictation"
  /\ len_before = 0
  /\ prev = "none"
  /\ faulty = {}
  /\ invoked = <<>>
  /\ pending = <<>>
  /\ registered = <<>>
  /\ field = <<>>
  /\ field_before = <<>>
  /\ EngineInit
  /\ ParserInit

\* one utterance of the session is heard: "match_dictation_mode(text)"
Spoke(t) ==
  /\ Len(field) <= MaxField
  /\ Heard(t, "match_dictation_mode", <<match_dictation_mode(t)>>)

SayDictation == \E t \in DictatedUtterances : Spoke(t)

SayBracket == \E t \in BracketUtterances : Spoke(t)

SayPunctuation == \E t \in PunctUtterances : Spoke(t)

SayScratch == \E t \in ScratchUtterances : Spoke(t)

\* the running dispatch executes its next statement; a key posted goes to
\* the field
TypingStep ==
  /\ pc = "running"
  /\ pending # <<>>
  /\ Executed(Head(pending))
  /\ field' = IF Head(pending).op = "key"
              THEN Receive(field, KeyEvent(Head(pending).key, Head(pending).mods))
              ELSE field
  /\ pc' = IF Head(pending).op = "return" THEN "listen" ELSE "running"
  /\ UNCHANGED <<utterance, via, outcome, len_before, prev, _use_slm, slm_reply, calls, faulty,
                 registered, field_before, engine>>

NextTyping ==
  SayDictation \/ SayBracket \/ SayPunctuation \/ SayScratch \/ RunCommand \/ TypingStep

SpecTyping == InitTyping /\ [][NextTyping]_vars

\* ------------------------------------------------------------------------
\* SpecResolve: a session of a caller of IntentParser.parse.  Each utterance
\* is resolved tier by tier and the actions of the result are then handed to
\* execute_actions.
\* ------------------------------------------------------------------------

ResolveInputs ==
  {<<"s","a","v","e">>, <<"u","n","d","o","."," ","r","e","d","o",".">>, <<"h","e","l","l","o"," ","w","o","r","l","d">>, <<"s","c","r","a","t","c","h"," ","t","h","a","t">>, <<"d","i","c","t","a","t","i","o","n"," ","m","o","d","e">>,
   <<"c","o","m","m","a","n","d"," ","m","o","d","e",","," ","s","n","a","k","e"," ","f","o","o"," ","b","a","r",".">>, <<"p","l","e","a","s","e"," ","s","a","v","e">>, <<"G","o"," ","u","p"," ","t","h","r","e","e",","," ","o","k","?">>,
   <<"t","i","t","l","e"," ","f","o","o"," ","b","a","r","."," ","s","c","r","a","t","c","h",".">>}

InitResolve ==
  /\ pc = "fast"
  /\ utterance \in ResolveInputs
  /\ via = "parse"
  /\ outcome = <<>>
  /\ \E flag \in BOOLEAN, available \in BOOLEAN : _use_slm = InitUseSlm(flag, available)
  /\ SessionInit
  /\ ParserInit

\* "result = parser.parse(transcript)" of the next utterance
NextUtterance ==
  /\ pc = "listen"
  /\ utterance' \in ResolveInputs
  /\ via' = "parse"
  /\ outcome' = <<>>
  /\ slm_reply' = <<>>
  /\ calls' = 0
  /\ pc' = "fast"
  /\ UNCHANGED <<session, _use_slm, raised>>

\* "execute_actions(result)" of the result parse returned
ExecuteResult ==
  /\ pc = "done"
  /\ Begin(Script(ExecuteActions(outcome[1].actions, Session), FALSE))

NextResolve ==
  \/ FastPath
  \/ SkipSlm
  \/ SlmPath(ShortReplies)
  \/ Fallback
  \/ ExecuteResult
  \/ HandlerStep
  \/ NextUtterance

SpecResolve == InitResolve /\ [][NextResolve]_vars

\* ------------------------------------------------------------------------
\* SpecEngine: Engine.run.  The audio callback, the hotkey listener thread
\* and the processing loop run side by side; the loop is followed statement
\* by statement.
\* ------------------------------------------------------------------------

\* blocks the queue holds at most
MaxBlocks == 2

\* segments the VAD cuts out of one block at most
MaxSegments == 2

\* what the recognizer hears in a segment; "" is no text
Transcripts == {<<>>, <<"s","a","v","e">>, <<"h","e","l","l","o">>}

\* run(): "self._state = State.LISTENING", the stream started, the loop entered
InitEngine ==
  /\ pc = "listen"
  /\ utterance = <<>>
  /\ via = ""
  /\ outcome = <<>>
  /\ _use_slm = FALSE
  /\ _last_typed_len = 0
  /\ posted = <<>>
  /\ mode = "Command"
  /\ len_before = 0
  /\ prev = "none"
  /\ faulty = {}
  /\ invoked = <<>>
  /\ pending = <<>>
  /\ registered = <<>>
  /\ field = <<>>
  /\ field_before = <<>>
  /\ _state = "LISTENING"
  /\ _audio_q = 0
  /\ segments = 0
  /\ loop = "get"
  /\ ParserInit

\* _audio_callback: "self._audio_q.put(...)"
AudioCallback ==
  /\ _audio_q < MaxBlocks
  /\ _audio_q' = _audio_q + 1
  /\ UNCHANGED <<pc, utterance, via, outcome, typist, parser, _state, segments, loop>>

\* on_press of the hotkey: _toggle_state
ToggleState ==
  /\ _state' = IF _state = "LISTENING" THEN "PAUSED" ELSE "LISTENING"
  /\ UNCHANGED <<pc, utterance, via, outcome, typist, parser, _audio_q, segments, loop>>

\* "block = self._audio_q.get(timeout=0.1)"; on queue.Empty the loop goes round
GetBlock ==
  /\ loop = "get"
  /\ _audio_q > 0
  /\ _audio_q' = _audio_q - 1
  /\ loop' = "check"
  /\ UNCHANGED <<pc, utterance, via, outcome, typist, parser, _state, segments>>

\* "if self._state == State.PAUSED: continue"
CheckPaused ==
  /\ loop = "check"
  /\ loop' = IF _state = "PAUSED" THEN "get" ELSE "accept"
  /\ UNCHANGED <<pc, utterance, via, outcome, typist, parser, _state, _audio_q, segments>>

\* "vad.accept_waveform(block)": the VAD completes some segments, or none
AcceptWaveform ==
  /\ loop = "accept"
  /\ \E n \in 0..MaxSegments : segments' = segments + n
  /\ loop' = "has_segment"
  /\ UNCHANGED <<pc, utterance, via, outcome, typist, parser, _state, _audio_q>>

\* "while vad.has_segment()" is false
NoSegment ==
  /\ loop = "has_segment"
  /\ segments = 0
  /\ loop' = "get"
  /\ UNCHANGED <<pc, utterance, via, outcome, typist, parser, _state, _audio_q, segments>>

\* "samples = vad.pop_segment()" up to "cmd = match(text)"; a segment that is
\* too short or gives no text is skipped
Transcribe ==
  /\ loop = "has_segment"
  /\ segments > 0
  /\ segments' = segments - 1
  /\ \E short \in BOOLEAN, text \in Transcripts :
       IF short \/ text = <<>>
       THEN /\ loop' = "has_segment"
            /\ UNCHANGED <<utterance, via, outcome>>
       ELSE /\ loop' = "dispatch"
            /\ utterance' = text
            /\ via' = "match"
            /\ outcome' = <<match(text)>>
  /\ UNCHANGED <<pc, typist, parser, _state, _audio_q>>

\* the dispatch of cmd begins: "cmd.handler()" in its try
DispatchCommand ==
  /\ loop = "dispatch"
  /\ pending' = Script(Dispatch(outcome[1], Session), FALSE)
  /\ posted' = <<>>
  /\ len_before' = _last_typed_len
  /\ loop' = "running"
  /\ UNCHANGED <<pc, utterance, via, outcome, _last_typed_len, mode, prev, faulty, invoked,
                 registered, typing, parser, _state, _audio_q, segments>>

\* the handler executes its next statement while the other threads run; after
\* its return the loop is back at "while vad.has_segment()"
EngineStep ==
  /\ loop = "running"
  /\ pending # <<>>
  /\ Executed(Head(pending))
  /\ loop' = IF Head(pending).op = "return" THEN "has_segment" ELSE "running"
  /\ UNCHANGED <<pc, utterance, via, outcome, len_before, prev, _use_slm, slm_reply, calls,
                 faulty, registered, typing, _state, _audio_q, segments>>

NextEngine ==
  \/ AudioCallback
  \/ ToggleState
  \/ GetBlock
  \/ CheckPaused
  \/ AcceptWaveform
  \/ NoSegment
  \/ Transcribe
  \/ DispatchCommand
  \/ EngineStep

SpecEngine == InitEngine /\ [][NextEngine]_vars

\* ------------------------------------------------------------------------
\* Properties
\* ------------------------------------------------------------------------

\* the IntentResult of a finished parse
Result == outcome[1]

\* IntentResult.source as the tier that returned the result writes it
SourceOfTier(tier) ==
  CASE tier = "_fast_path" -> "fast_path"
    [] tier = "_slm_path" -> "slm"
    [] tier = "_fallback" -> "fallback"
    [] OTHER -> ""

\* C1: whatever the transcript and whatever the remote provider does
\* (disabled, unavailable, text, nothing, an exception), parse never raises
\* and returns one IntentResult with at least one action, every action with
\* a handler, and the source of the tier that produced it.
C1_ParseAlwaysReturns ==
  /\ ~raised
  /\ pc \in {"fast", "escalate", "fallback", "done"}
  /\ pc = "done" =>
       /\ Len(outcome) = 1
       /\ Result.actions # <<>>
       /\ \A i \in 1..Len(Result.actions) : Result.actions[i].handler # NoHandler
       /\ via \in {"_fast_path", "_slm_path", "_fallback"}
       /\ Result.source = SourceOfTier(via)

\* the provider raised and parse returned the dictation fallback
C1_Witness ==
  /\ pc = "done"
  /\ calls = 1
  /\ slm_reply[1].reply.kind = "raise"
  /\ Result.source = "fallback"
  /\ Len(Result.actions) = 1

\* the text _match_single, try_format and _try_nato_sequence are handed: the
\* normalized transcript
Handed == _normalize(utterance)

\* the words of the normalized utterance
UtteranceWords == SplitWords(Handed)

\* the normalized utterance is its words with one space between them
WordsOnly == Handed = Join(UtteranceWords, <<" ">>)

WordOrWords == {<<"w","o","r","d">>, <<"w","o","r","d","s">>}

\* a count as it is spoken: a digit string or a number word
IsCount(w) ==
  \/ IsDigit(w)
  \/ w \in {<<"o","n","e">>, <<"t","w","o">>, <<"t","h","r","e","e">>, <<"f","o","u","r">>, <<"f","i","v","e">>, <<"s","i","x">>, <<"s","e","v","e","n">>,
            <<"e","i","g","h","t">>, <<"n","i","n","e">>, <<"t","e","n">>}

\* '[go ][<count> ]word|words left|right'
WordMoveForm(ws) ==
  /\ Len(ws) \in 2..4
  /\ ws[Len(ws)] \in {<<"l","e","f","t">>, <<"r","i","g","h","t">>}
  /\ ws[Len(ws) - 1] \in WordOrWords
  /\ Len(ws) = 3 => (ws[1] = <<"g","o">> \/ IsCount(ws[1]))
  /\ Len(ws) = 4 => (ws[1] = <<"g","o">> /\ IsCount(ws[2]))

\* 'go <count> <up|down|left|right>' whose middle word is not word/words
GoCountForm(ws) ==
  /\ Len(ws) = 3
  /\ ws[1] = <<"g","o">>
  /\ ws[2] \notin WordOrWords
  /\ ws[3] \in {<<"u","p">>, <<"d","o","w","n">>, <<"l","e","f","t">>, <<"r","i","g","h","t">>}

\* the name of the registry entry _match_single resolved the utterance to
ResolvedName == IF outcome = <<>> THEN <<>> ELSE outcome[1].name

\* C2: a normalized utterance of the word-movement form resolves to
\* word_move, never to go_n_direction; 'go <count> <direction>' whose middle
\* word is not word/words resolves to go_n_direction.
C2_WordMovePrecedence ==
  (pc = "matched" /\ via = "_match_single") =>
     /\ (WordsOnly /\ WordMoveForm(UtteranceWords)) =>
          /\ ResolvedName = <<"w","o","r","d","_","m","o","v","e">>
          /\ outcome[1].kind = "parameterized"
          /\ outcome[1].handler.fn = "cmd_word_move"
     /\ (WordsOnly /\ GoCountForm(UtteranceWords)) =>
          /\ ResolvedName = <<"g","o","_","n","_","d","i","r","e","c","t","i","o","n">>
          /\ outcome[1].handler.fn = "cmd_go_n"

\* 'go word left', which both patterns match, was resolved
C2_Witness ==
  /\ pc = "matched"
  /\ via = "_match_single"
  /\ utterance = <<"g","o"," ","w","o","r","d"," ","l","e","f","t">>
  /\ ResolvedName = <<"w","o","r","d","_","m","o","v","e">>

\* 'delete <count> word|words'
DeleteWordsForm(ws) ==
  /\ Len(ws) = 3
  /\ ws[1] = <<"d","e","l","e","t","e">>
  /\ IsCount(ws[2])
  /\ ws[3] \in WordOrWords

\* 'delete <count>' and nothing after it
DeleteCountForm(ws) ==
  /\ Len(ws) = 2
  /\ ws[1] = <<"d","e","l","e","t","e">>
  /\ IsCount(ws[2])

\* C3: 'delete <count> word|words' resolves to delete_words, never to
\* delete_n; 'delete <count>' alone resolves to delete_n; 'delete word'
\* resolves through the exact table, not through a parameterized pattern.
C3_DeletePrecedence ==
  (pc = "matched" /\ via = "_match_single") =>
     /\ (WordsOnly /\ DeleteWordsForm(UtteranceWords)) =>
          /\ ResolvedName = <<"d","e","l","e","t","e","_","w","o","r","d","s">>
          /\ outcome[1].handler.fn = "cmd_delete_words"
     /\ (WordsOnly /\ DeleteCountForm(UtteranceWords)) =>
          /\ ResolvedName = <<"d","e","l","e","t","e","_","n">>
          /\ outcome[1].handler.fn = "cmd_delete_n"
     /\ Handed = <<"d","e","l","e","t","e"," ","w","o","r","d">> =>
          /\ outcome # <<>>
          /\ outcome[1].kind = "exact"
          /\ outcome[1].name = <<"d","e","l","e","t","e"," ","w","o","r","d">>
          /\ outcome[1].handler = ExactHandler(<<"d","e","l","e","t","e"," ","w","o","r","d">>)

\* 'delete two words', which the pattern of delete_n matches too
C3_Witness ==
  /\ pc = "matched"
  /\ via = "_match_single"
  /\ utterance = <<"d","e","l","e","t","e"," ","t","w","o"," ","w","o","r","d","s">>
  /\ ResolvedName = <<"d","e","l","e","t","e","_","w","o","r","d","s">>

\* the pieces of the transcript between runs of sentence punctuation
Pieces == Sentences(utterance)

\* the resolution of one piece by the rule tiers, <<Action>> or <<>>
PieceAction(piece) == _match_single_normalized(_normalize(piece))

\* the whole transcript matches a rule: the explicit type/insert form or,
\* once normalized, an exact, parameterized, formatter or phonetic rule
WholeMatches ==
  \/ RawTypeMatch(utterance) # <<>>
  \/ _match_single_normalized(_normalize(utterance)) # <<>>

EveryPieceResolves == \A i \in 1..Len(Pieces) : PieceAction(Pieces[i]) # <<>>

\* two actions that name the same entry and call the same handler
SameAction(a, b) == a.kind = b.kind /\ a.name = b.name /\ a.handler = b.handler

\* the result holds one action per piece, the i-th being the resolution of
\* the i-th piece, from the fast path and without dictation
OneActionPerPiece ==
  /\ via = "_fast_path"
  /\ Result.source = "fast_path"
  /\ Len(Result.actions) = Len(Pieces)
  /\ \A i \in 1..Len(Pieces) :
       /\ SameAction(Result.actions[i], PieceAction(Pieces[i])[1])
       /\ Result.actions[i].kind # "dictation"

\* C4 as stated: a transcript of n >= 1 pieces, each of which resolves by the
\* rule tiers, resolves to exactly n actions, the i-th that of the i-th piece.
C4_Original ==
  (pc = "done" /\ Len(Pieces) >= 1 /\ EveryPieceResolves) => OneActionPerPiece

\* C4 amended: a transcript that matches no rule as a whole and has n >= 2
\* pieces, each of which resolves, resolves on the fast path to exactly n
\* actions, the i-th that of the i-th piece; a transcript that matches a rule
\* as a whole resolves to the single action of that rule, not to a composite.
C4_SplitAfterWholeMatch ==
  pc = "done" =>
     /\ (~WholeMatches /\ Len(Pieces) >= 2 /\ EveryPieceResolves) => OneActionPerPiece
     /\ WholeMatches =>
          /\ via = "_fast_path"
          /\ Result.source = "fast_path"
          /\ Len(Result.actions) = 1
          /\ Result.actions[1].kind # "dictation"
          /\ RawTypeMatch(utterance) = <<>> =>
               <<Result.actions[1]>> = _match_single_normalized(_normalize(utterance))

\* two pieces that each resolve gave a composite of two
C4_Witness ==
  /\ pc = "done"
  /\ ~WholeMatches
  /\ Len(Pieces) = 2
  /\ EveryPieceResolves
  /\ Len(Result.actions) = 2
  /\ Result.source = "fast_path"

\* the actions of the pieces that resolve, in piece order
RECURSIVE ResolvedPieces(_)
ResolvedPieces(pieces) ==
  IF pieces = <<>> THEN <<>>
  ELSE (IF PieceAction(Head(pieces)) # <<>> THEN PieceAction(Head(pieces)) ELSE <<>>)
       \o ResolvedPieces(Tail(pieces))

\* C5: when the whole transcript matches no rule and it has two or more
\* pieces of which at least one resolves, the fast path returns the actions
\* of the resolving pieces only, in piece order; nothing is typed for the
\* other pieces, the provider is not called and the fallback is not used.
C5_UnmatchedPiecesDropped ==
  (/\ pc \in {"escalate", "fallback", "done", "raised"}
   /\ ~WholeMatches
   /\ Len(Pieces) >= 2
   /\ \E i \in 1..Len(Pieces) : PieceAction(Pieces[i]) # <<>>) =>
     /\ pc = "done"
     /\ via = "_fast_path"
     /\ Result.source = "fast_path"
     /\ Result.actions = ResolvedPieces(Pieces)
     /\ \A i \in 1..Len(Result.actions) : Result.actions[i].kind # "dictation"
     /\ calls = 0
     /\ slm_reply = <<>>

\* a transcript with one piece that resolves and one that does not
C5_Witness ==
  /\ pc = "done"
  /\ ~WholeMatches
  /\ Len(Pieces) = 2
  /\ PieceAction(Pieces[1]) # <<>>
  /\ PieceAction(Pieces[2]) = <<>>
  /\ _normalize(Pieces[2]) # <<>>
  /\ Result.actions = PieceAction(Pieces[1])

\* what the provider answered when complete() was called
Answer == slm_reply[1].reply

\* the name of a command item is a key of the exact table, as it is or with
\* spaces for its underscores
NamesExactEntry(item) ==
  \/ _normalize(item.name) \in ExactKeys
  \/ ReplaceUnderscore(_normalize(item.name)) \in ExactKeys

\* an item that is not of the action format the provider is asked for,
\* {"kind":"command","name":<name>,"args":{...}} or
\* {"kind":"dictation","text":<text>}: an element that is not an object, an
\* object of another kind, a command whose name is missing or not a string
\* or whose args are not a mapping, a dictation without text
MalformedItem(item) ==
  \/ ~item.obj
  \/ item.kind \notin {"command", "dictation"}
  \/ item.kind = "command" /\ (~item.nameOk \/ item.name = <<>> \/ ~item.argsOk)
  \/ item.kind = "dictation" /\ item.text = <<>>

\* the item is well formed and resolves to an action: a command of the
\* registry, or dictation with text
UsableItem(item) ==
  /\ ~MalformedItem(item)
  /\ \/ item.kind = "dictation" /\ item.text # <<>>
     \/ item.kind = "command" /\ _resolve_command_action(item).val # <<>>

\* the remote call raised, returned nothing, returned text that is no JSON
\* or no array, an array with a malformed item, or no usable action
FailedAnswer(rp) ==
  \/ rp.kind \in {"raise", "none", "empty"}
  \/ rp.data.t \in {"invalid", "notlist"}
  \/ \E i \in 1..Len(rp.data.items) : MalformedItem(rp.data.items[i])
  \/ \A i \in 1..Len(rp.data.items) : ~UsableItem(rp.data.items[i])

\* one dictation action that types the transcript, from the fallback
LiteralFallback ==
  /\ Len(outcome) = 1
  /\ Result.source = "fallback"
  /\ Len(Result.actions) = 1
  /\ Result.actions[1].kind = "dictation"
  /\ Result.actions[1].text = utterance
  /\ Result.actions[1].handler = Handler("_type_dictation", "", <<>>, utterance, <<>>)

\* C6: when the remote call raises, returns nothing, returns text that is
\* not JSON or not an array, returns an array with a malformed item or one
\* with no usable action, no exception leaves parse, no action of the
\* response is kept, and parse returns exactly one dictation action of the
\* original transcript with source fallback.
C6_FailedRemoteFallsBack ==
  /\ pc # "raised"
  /\ (calls > 0 /\ FailedAnswer(Answer)) =>
        /\ ~raised
        /\ pc \in {"fallback", "done"}
        /\ pc = "fallback" => outcome = <<>>
        /\ pc = "done" => (via = "_fallback" /\ LiteralFallback)

\* the normalized transcript shares a word with the command vocabulary
SharesCommandWord ==
  \E i \in 1..Len(SplitWords(_normalize(utterance))) :
     SplitWords(_normalize(utterance))[i] \in _COMMAND_WORDS

\* C7: complete() is invoked at most once per parse, and only when the fast
\* path returned nothing, remote disambiguation is enabled, the provider is
\* available and the normalized transcript shares a word with the command
\* vocabulary.
C7_RemoteCallGuard ==
  /\ calls <= 1
  /\ calls > 0 =>
       /\ _fast_path(utterance) = <<>>
       /\ _use_slm
       /\ slm_reply[1].available
       /\ SharesCommandWord
  /\ (slm_reply # <<>> /\ ~slm_reply[1].available) => calls = 0

\* the provider was called once for a transcript the fast path declined
C7_Witness ==
  /\ pc \in {"fallback", "done"}
  /\ calls = 1
  /\ SharesCommandWord
  /\ _fast_path(utterance) = <<>>

\* the handler is a mode switch or scratch
SwitchOrScratch(h) ==
  HandlerBody(h.fn).op \in {"_switch_command", "_switch_dictation", "_scratch_last"}

\* the normalized transcript ends with a punctuation word
EndsWithPunctWord(normalized) ==
  \E k \in 1..Len(SplitWords(normalized)) :
     Join(SubSeq(SplitWords(normalized), k, Len(SplitWords(normalized))), <<" ">>)
       \in PunctWords

\* the match is literal dictation of the raw transcript
LiteralDictation(m) ==
  /\ m.kind = "dictation"
  /\ m.name = <<"d","i","c","t","a","t","i","o","n">>
  /\ m.handler = Handler("_type_dictation", "", <<>>, utterance, <<>>)

\* C8: match_dictation_mode returns a command handler only for an exact
\* entry flagged dictation_safe, all of which are mode switches or scratch;
\* any other transcript, whatever it matches in command mode, is literal
\* dictation of the raw transcript, unless it is or ends with a punctuation
\* word.
C8_DictationGate ==
  (pc = "matched" /\ via = "match_dictation_mode") =>
     /\ \/ /\ outcome[1].kind = "exact"
           /\ outcome[1].name = _normalize(utterance)
           /\ outcome[1].name \in ExactKeys
           /\ outcome[1].handler = ExactHandler(outcome[1].name)
           /\ SwitchOrScratch(outcome[1].handler)
        \/ LiteralDictation(outcome[1])
        \/ /\ EndsWithPunctWord(_normalize(utterance))
           /\ outcome[1].handler.fn \in {"_type_punctuation", "_type_dictation_then_punct"}
     /\ (/\ ~EndsWithPunctWord(_normalize(utterance))
         /\ ~(_normalize(utterance) \in ExactKeys
              /\ SwitchOrScratch(ExactHandler(_normalize(utterance))))) =>
          LiteralDictation(outcome[1])

\* a transcript with a rule in command mode came back as literal dictation
C8_Witness ==
  /\ pc = "matched"
  /\ via = "match_dictation_mode"
  /\ _match_single(_normalize(utterance)) # <<>>
  /\ LiteralDictation(outcome[1])

\* the kind of the dispatch that just ended
LastDispatch == IF pc = "listen" THEN DispatchKind(via, outcome) ELSE "none"

\* C9: executing a mode-switch command sets the mode to its target, and the
\* utterance after a switch is resolved under the new mode: by
\* match_dictation_mode after a switch to Dictation, by the full matcher
\* after a switch to Command.
C9_ModeSwitchSetsMode ==
  /\ LastDispatch = "to_dictation" => mode = "Dictation"
  /\ LastDispatch = "to_command" => mode = "Command"
  /\ (pc = "resolved" /\ prev = "to_dictation") => via = "match_dictation_mode"
  /\ (pc = "resolved" /\ prev = "to_command") => via \in {"match", "parse"}

\* n presses of backspace without modifiers
Backspaces(n) == [i \in 1..n |-> KeyEvent(_KEYCODES[<<"b","a","c","k","s","p","a","c","e">>], {})]

\* C10: a scratch command run when the last emission was recorded with
\* length N > 0 posts exactly N backspaces and resets the counter to 0; a
\* scratch command that follows a scratch command posts nothing and leaves
\* the counter at 0.
C10_ScratchOnce ==
  LastDispatch = "scratch" =>
     /\ len_before > 0 => (posted = Backspaces(len_before) /\ _last_typed_len = 0)
     /\ prev = "scratch" => (len_before = 0 /\ posted = <<>> /\ _last_typed_len = 0)

\* scratch removed an emission of more than one character
C10_Witness ==
  /\ LastDispatch = "scratch"
  /\ len_before > 1
  /\ Len(posted) = len_before
  /\ _last_typed_len = 0

\* a second scratch in a row posted nothing
C10_SecondScratch ==
  /\ LastDispatch = "scratch"
  /\ prev = "scratch"
  /\ posted = <<>>

\* the handlers that inject text
TextHandlers ==
  {"_type_dictation", "_type_dictation_then_punct", "_type_punctuation", "_type_formatted",
   "nato_handler", "cmd_type_text"}

\* the key events of a dispatch that insert a character
Inserted(events) == SelectSeq(events, LAMBDA e : e.key # _KEYCODES[<<"b","a","c","k","s","p","a","c","e">>])

\* the dispatch that just ended ran one handler, and that handler injects text
LastEmission ==
  /\ pc = "listen"
  /\ outcome # <<>>
  /\ Len(HandlerFns(via, outcome)) = 1
  /\ HandlerFns(via, outcome)[1] \in TextHandlers

\* C11: every handler that injects text (dictation, dictation and
\* punctuation, punctuation, formatter output, phonetic sequence, a single
\* phonetic letter, explicit type/insert text) leaves the scratch counter at
\* the number of characters it inserted, whatever the counter was before.
C11_CounterIsLastEmission ==
  LastEmission => _last_typed_len = Len(Inserted(posted))

\* what the last dispatch was handed: the actions of a result, the
\* sub-commands of a composite, or one command
ExecList ==
  IF via = "parse" THEN outcome[1].actions
  ELSE IF outcome[1].handler.fn = "run_all" THEN outcome[1].subs
  ELSE <<outcome[1]>>

\* the positions, in order, that have a handler to call
RECURSIVE WithHandler(_, _)
WithHandler(list, i) ==
  IF i > Len(list) THEN <<>>
  ELSE (IF via = "parse" /\ list[i].handler = NoHandler THEN <<>> ELSE <<i>>)
       \o WithHandler(list, i + 1)

\* the entries, in order, whose handler does not raise
RECURSIVE Healthy(_, _, _)
Healthy(list, i, bad) ==
  IF i > Len(list) THEN <<>>
  ELSE (IF i \in bad THEN <<>> ELSE <<list[i]>>) \o Healthy(list, i + 1, bad)

\* the session the last dispatch started from
Started == [Session EXCEPT !.len = len_before]

\* the session after the handlers that do not raise have run, in order
HealthyRun ==
  IF via = "parse" THEN ExecuteActions(Healthy(ExecList, 1, faulty), Started)
  ELSE run_all(Healthy(ExecList, 1, faulty), Started)

\* C12: whichever handlers raise, execute_actions calls the handler of every
\* action exactly once in sequence order, the handlers after a failed one
\* still run and have their effect, and nothing is raised to the caller; the
\* same holds for run_all over the sub-commands of a composite of match.
C12_FailureIsolation ==
  pc \notin {"resolved", "running"} =>
    /\ pc = "listen"
    /\ ~raised
    /\ invoked = WithHandler(ExecList, 1)
    /\ <<_last_typed_len, posted, mode>> = <<HealthyRun.len, HealthyRun.posted, HealthyRun.mode>>

C12_Witness ==
  /\ pc = "listen"
  /\ via = "parse"
  /\ Len(ExecList) = 3
  /\ faulty = {1}
  /\ invoked = <<1, 2, 3>>
  /\ posted # <<>>

\* the result of the text function applied last
Normalized == outcome[1]

\* C13: normalization is idempotent: normalizing a normalized text changes
\* nothing, also when the input has punctuation separated from its words by
\* spaces at either end.
C13_NormalizeIdempotent ==
  (pc = "matched" /\ via = "_normalize") => _normalize(Normalized) = Normalized

\* the words of a text once case and punctuation are set aside
CanonicalWords(text) == SplitWords(SelectSeq(Lower(text), KeepWordOrSpace))

NoDoubleSpace(s) == \A i \in 1..(Len(s) - 1) : ~(s[i] = " " /\ s[i + 1] = " ")

\* C14: normalize returns a canonical form: lower case, only word characters
\* and single spaces, no space at either end; inputs that differ only in
\* case, punctuation or amount of whitespace get the same result.
C14_NormalizeCanonical ==
  (pc = "matched" /\ via = "_normalize") =>
    /\ \A i \in 1..Len(Normalized) :
         Normalized[i] \in (LowerSet \cup DigitChars \cup {"_", " "})
    /\ NoDoubleSpace(Normalized)
    /\ Normalized # <<>> => (Head(Normalized) # " " /\ Normalized[Len(Normalized)] # " ")
    /\ Normalized = Join(CanonicalWords(utterance), <<" ">>)

\* the words of the text handed to _try_nato_sequence: the normalized
\* transcript
Spoken == SplitWords(_normalize(utterance))

\* every word is an alphabet word or a prefix right before an alphabet word
AllPhonetic(words) ==
  \A i \in 1..Len(words) :
    \/ words[i] \in _NATO_WORDS
    \/ /\ words[i] \in _CAP_PREFIXES
       /\ i < Len(words)
       /\ words[i + 1] \in _NATO_WORDS

\* one letter per alphabet word, upper case after a prefix
RECURSIVE SpelledFrom(_, _)
SpelledFrom(words, i) ==
  IF i > Len(words) THEN <<>>
  ELSE IF words[i] \in _NATO_WORDS
       THEN <<IF i > 1 /\ words[i - 1] \in _CAP_PREFIXES
              THEN UpperChar(_NATO[NatoLetter(words[i])].letter)
              ELSE _NATO[NatoLetter(words[i])].letter>> \o SpelledFrom(words, i + 1)
       ELSE SpelledFrom(words, i + 1)

\* C15: phonetic decoding succeeds exactly for utterances of two or more
\* words, each an alphabet word or a capitalization prefix right before an
\* alphabet word; the text is then one letter per alphabet word in spoken
\* order, upper case exactly after a prefix; otherwise there is no result at
\* all.
C15_PhoneticAllOrNothing ==
  (pc = "matched" /\ via = "_try_nato_sequence") =>
    IF Len(Spoken) >= 2 /\ AllPhonetic(Spoken)
    THEN outcome = <<SpelledFrom(Spoken, 1)>>
    ELSE outcome = <<>>

C15_Witness ==
  /\ pc = "matched"
  /\ via = "_try_nato_sequence"
  /\ Len(Spoken) = 3
  /\ Spoken[1] \in _CAP_PREFIXES
  /\ outcome = <<(<<"B", "s">>)>>

\* the punctuation words that are also common English words
AmbiguousWords == {<<"b","a","n","g">>, <<"d","a","s","h">>, <<"d","o","t">>, <<"h","y","p","h","e","n">>, <<"c","o","l","o","n">>}

\* the words of the normalized utterance
NormWords == SplitWords(_normalize(utterance))

LastWords(words, n) == Join(SubSeq(words, Len(words) - n + 1, Len(words)), <<" ">>)

\* an ambiguous word is the last word, after other content
EndsAmbiguous(words) == Len(words) >= 2 /\ words[Len(words)] \in AmbiguousWords

\* the last words are a punctuation phrase that is not ambiguous
EndsUnambiguous(words) ==
  \E n \in 1..Len(words) : LastWords(words, n) \in (PunctWords \ AmbiguousWords)

\* the punctuation word a match of match_dictation_mode inserts, <<>> if none
PunctWordOf(m) ==
  IF m.handler.fn = "_type_punctuation" THEN Drop(m.name, Len(<<"p","u","n","c","t",":">>) + 1)
  ELSE IF m.handler.fn = "_type_dictation_then_punct"
  THEN Drop(m.name, Len(<<"d","i","c","t","a","t","i","o","n","+","p","u","n","c","t",":">>) + 1)
  ELSE <<>>

\* C16 as stated: whenever an ambiguous word is the last word after other
\* content, trailing-punctuation matching returns no match and the utterance
\* is typed as literal dictation.
C16_Original ==
  (pc = "matched" /\ EndsAmbiguous(NormWords)) =>
    /\ via = "_match_trailing_punctuation" => outcome = <<>>
    /\ via = "match_dictation_mode" => LiteralDictation(outcome[1])

\* C16: an ambiguous punctuation word becomes punctuation only when the
\* normalized utterance is exactly that word; when it is the last word after
\* other content, and the last words are not a punctuation phrase of their
\* own (semi colon), trailing matching returns no match and the utterance is
\* literal dictation; a phrase that is not ambiguous matches standalone and
\* trailing.
C16_AmbiguousStandaloneOnly ==
  pc = "matched" =>
    /\ via = "_match_trailing_punctuation" =>
         /\ (EndsAmbiguous(NormWords) /\ ~EndsUnambiguous(NormWords)) => outcome = <<>>
         /\ (outcome # <<>> /\ outcome[1].word \in AmbiguousWords) =>
              (NormWords = <<outcome[1].word>> /\ outcome[1].before = <<>>)
         /\ EndsUnambiguous(NormWords) =>
              /\ outcome # <<>>
              /\ outcome[1].word \in (PunctWords \ AmbiguousWords)
              /\ SplitWords(outcome[1].before) \o SplitWords(outcome[1].word) = NormWords
    /\ via = "match_dictation_mode" =>
         /\ (EndsAmbiguous(NormWords) /\ ~EndsUnambiguous(NormWords)) =>
              LiteralDictation(outcome[1])
         /\ PunctWordOf(outcome[1]) \in AmbiguousWords =>
              (NormWords = <<PunctWordOf(outcome[1])>>
               /\ outcome[1].handler.fn = "_type_punctuation")
         /\ EndsUnambiguous(NormWords) =>
              PunctWordOf(outcome[1]) \in (PunctWords \ AmbiguousWords)

\* "hello dash" came back as literal dictation
C16_Witness ==
  /\ pc = "matched"
  /\ via = "match_dictation_mode"
  /\ Len(NormWords) = 2
  /\ NormWords[2] = <<"d","a","s","h">>
  /\ ~EndsUnambiguous(NormWords)
  /\ LiteralDictation(outcome[1])

\* the raw transcript without the blanks around it
Trimmed == Strip(utterance)

\* the keyword the transcript begins with, in any letter case, followed by a
\* blank: <<keyword>>, or <<>> when it is not of the type/insert form
FormKeyword ==
  IF \E kw \in {<<"t","y","p","e">>, <<"i","n","s","e","r","t">>} :
       /\ Len(Trimmed) > Len(kw) + 1
       /\ Lower(SubSeq(Trimmed, 1, Len(kw))) = kw
       /\ Trimmed[Len(kw) + 1] \in SpaceChars
  THEN <<CHOOSE kw \in {<<"t","y","p","e">>, <<"i","n","s","e","r","t">>} : Lower(SubSeq(Trimmed, 1, Len(kw))) = kw>>
  ELSE <<>>

\* the text after the keyword, as it stands in the raw transcript
CapturedText == Strip(Drop(Trimmed, Len(FormKeyword[1]) + 1))

KeyNames == {<<"s","p","a","c","e">>, <<"t","a","b">>, <<"e","n","t","e","r">>, <<"n","e","w","l","i","n","e">>}

\* the one action or match the resolver returned
Resolved == IF via = "match" THEN outcome[1] ELSE outcome[1].actions[1]

\* the text the returned handler types when it is called
TypedBy(h) == IF via = "match" THEN Kw(Resolved.args, "text").val ELSE Kw(h.args, "text").val

\* C17: a raw transcript of the form "type <text>" or "insert <text>", in
\* any letter case of the keyword, resolves before any table lookup to the
\* type_text action with the captured text exactly as in the raw transcript,
\* unless the normalized captured text is space, tab, enter or newline: then
\* the action is that key's press and no text is typed.
C17_ExplicitTypeForm ==
  (pc = "matched" /\ via \in {"match", "_fast_path"} /\ FormKeyword # <<>>) =>
    /\ outcome # <<>>
    /\ via = "_fast_path" => (Len(outcome[1].actions) = 1 /\ outcome[1].source = "fast_path")
    /\ IF _normalize(CapturedText) \in KeyNames
       THEN /\ Resolved.name = <<"i","n","s","e","r","t",":">> \o _normalize(CapturedText)
            /\ Resolved.handler = ExactHandler(_normalize(CapturedText))
            /\ HandlerBody(Resolved.handler.fn).op = "press_key"
       ELSE /\ Resolved.name = <<"t","y","p","e","_","t","e","x","t">>
            /\ Resolved.handler.fn = "cmd_type_text"
            /\ TypedBy(Resolved.handler) = CapturedText

\* "Type Hi there." kept its capital and its full stop
C17_Witness ==
  /\ pc = "matched"
  /\ via = "_fast_path"
  /\ FormKeyword = <<<<"t","y","p","e">>>>
  /\ CapturedText # Lower(CapturedText)
  /\ _normalize(CapturedText) # Lower(CapturedText)
  /\ Resolved.name = <<"t","y","p","e","_","t","e","x","t">>
  /\ Resolved.text = CapturedText

\* the items of the array the provider answered
AnswerItems == Answer.data.items

\* the phrases rebuilt from a command item
Phrases(item) ==
  Candidates(_normalize(item.name), ReplaceUnderscore(_normalize(item.name)), item.args)

\* the action is the exact entry under the item's normalized name, as it is
\* or with spaces for its underscores
FromExact(a, item) ==
  /\ a.name \in {_normalize(item.name), ReplaceUnderscore(_normalize(item.name))}
  /\ a.name \in ExactKeys
  /\ a.handler = ExactHandler(a.name)

\* the action is a parameterized entry whose pattern matches a rebuilt
\* phrase, its handler bound to the groups of that match
FromPattern(a, item) ==
  \E k \in 1..Len(_PARAMETERIZED), j \in 1..Len(Phrases(item)) :
    \E m \in {ReMatch(_PARAMETERIZED[k], Phrases(item)[j], FALSE)} :
      /\ m # <<>>
      /\ a.name = _PARAMETERIZED[k].name
      /\ a.handler = BoundHandler(_PARAMETERIZED[k].fn, m[1])

\* the item matches an entry of the registry
InRegistry(item) ==
  \/ NamesExactEntry(item)
  \/ \E k \in 1..Len(_PARAMETERIZED), j \in 1..Len(Phrases(item)) :
       ReMatch(_PARAMETERIZED[k], Phrases(item)[j], FALSE) # <<>>

\* the item contributes an action
Keeps(item) ==
  \/ item.kind = "command" /\ InRegistry(item)
  \/ item.kind = "dictation" /\ item.text # <<>>

KeptItems == SelectSeq(AnswerItems, Keeps)

\* C18: in a result with source slm every command action has a handler of
\* the registry, found by exact lookup of the item's normalized name (with
\* underscores or with spaces) or by a parameterized pattern that matches a
\* phrase rebuilt from the item; an item that matches no entry contributes
\* no action, and a response whose items are all dropped is a miss.
C18_HandlersFromRegistry ==
  /\ (pc = "done" /\ via = "_slm_path") =>
       /\ Result.source = "slm"
       /\ Len(Result.actions) = Len(KeptItems)
       /\ \A i \in 1..Len(KeptItems) :
            IF KeptItems[i].kind = "command"
            THEN /\ Result.actions[i].kind = "command"
                 /\ \/ FromExact(Result.actions[i], KeptItems[i])
                    \/ FromPattern(Result.actions[i], KeptItems[i])
            ELSE Result.actions[i].kind = "dictation"
  /\ (/\ calls > 0
      /\ Answer.kind = "text"
      /\ Answer.data.t = "list"
      /\ \A i \in 1..Len(AnswerItems) : ~Keeps(AnswerItems[i])) =>
       /\ via # "_slm_path"
       /\ pc \in {"fallback", "done"}
       /\ pc = "done" => Result.source = "fallback"

\* an unknown command was dropped and the one after it resolved by a pattern
C18_Witness ==
  /\ pc = "done"
  /\ via = "_slm_path"
  /\ Len(AnswerItems) = 2
  /\ AnswerItems[1].kind = "command"
  /\ ~InRegistry(AnswerItems[1])
  /\ Len(Result.actions) = 1
  /\ FromPattern(Result.actions[1], AnswerItems[2])

\* an assignment was made to a phrase that was a key of the table already
Shadowed ==
  \E i, j \in 1..Len(registered) : i < j /\ registered[i].key = registered[j].key

\* C19: registering an exact phrase that is already a key of the exact
\* table, by the decorator or by the phonetic loops, fails initialization;
\* after startup no exact command has been silently shadowed.
C19_DuplicateFailsInit ==
  Shadowed => (raised /\ pc # "ready")

\* the pattern matches the whole of s
FullMatches(pat, s) ==
  Match(Cat(<<pat.re, Eos>>), s, 1, NoCaps(pat.groups), FALSE) # <<>>

\* the patterns, by position in registration order, that match all of s
FullyMatching(s) == {k \in 1..Len(_PARAMETERIZED) : FullMatches(_PARAMETERIZED[k], s)}

FirstOf(S) == CHOOSE k \in S : \A j \in S : k <= j

\* C20: a parameterized pattern is accepted for a normalized utterance only
\* if it matches the entire utterance: a complete pattern phrase followed by
\* further words does not resolve to that pattern; among the patterns that
\* match in full, the first in registration order wins.
C20_FullStringMatch ==
  (pc = "matched" /\ via = "_match_single" /\ Handed \notin ExactKeys) =>
    IF FullyMatching(Handed) # {}
    THEN /\ outcome # <<>>
         /\ outcome[1].kind = "parameterized"
         /\ outcome[1].name = _PARAMETERIZED[FirstOf(FullyMatching(Handed))].name
    ELSE outcome = <<>> \/ outcome[1].kind # "parameterized"

\* some parameterized pattern matches s
SomePattern(s) == \E k \in 1..Len(_PARAMETERIZED) : ReMatch(_PARAMETERIZED[k], s, FALSE) # <<>>

\* the first tier, in the order exact, parameterized, formatter, phonetic,
\* that matches s
FirstTier(s) ==
  IF s \in ExactKeys THEN "exact"
  ELSE IF SomePattern(s) THEN "parameterized"
  ELSE IF try_format(s) # <<>> THEN "formatter"
  ELSE IF _try_nato_sequence(s) # <<>> THEN "phonetic"
  ELSE "none"

\* the match m is what the tier returns for s
ResultOfTier(tier, m, s) ==
  CASE tier = "exact" ->
         m # <<>> /\ m[1].kind = "exact" /\ m[1].name = s /\ m[1].handler = ExactHandler(s)
    [] tier = "parameterized" ->
         /\ m # <<>>
         /\ m[1].kind = "parameterized"
         /\ \E k \in 1..Len(_PARAMETERIZED) :
              /\ m[1].name = _PARAMETERIZED[k].name
              /\ <<m[1].args>> = ReMatch(_PARAMETERIZED[k], s, FALSE)
    [] tier = "formatter" ->
         /\ m # <<>>
         /\ m[1].kind = "formatter"
         /\ m[1].name = <<"f","o","r","m","a","t",":">> \o try_format(s)[1].name
         /\ m[1].handler = Handler("_type_formatted", "", <<>>, try_format(s)[1].text, <<>>)
    [] tier = "phonetic" ->
         /\ m # <<>>
         /\ m[1].name = <<"n","a","t","o","_","s","e","q","u","e","n","c","e">>
         /\ m[1].handler = Handler("_type_formatted", "", <<>>, _try_nato_sequence(s)[1], <<>>)
    [] OTHER -> m = <<>>

\* C21: single-phrase resolution tries the exact table, then the
\* parameterized patterns, then the formatters, then phonetic decoding, and
\* returns the result of the first tier that matches; an exact key resolves
\* to its exact entry even when a later tier would match it too, and a later
\* tier is consulted only when every earlier one declined.
C21_TierPrecedence ==
  (pc = "matched" /\ via = "_match_single") =>
    ResultOfTier(FirstTier(Handed), outcome, Handed)

\* an exact key that a parameterized pattern matches as well
C21_Witness ==
  /\ pc = "matched"
  /\ via = "_match_single"
  /\ Handed \in ExactKeys
  /\ SomePattern(Handed)
  /\ outcome[1].kind = "exact"
  /\ outcome[1].name = Handed

\* the item names a parameterized entry and its args are the named groups of
\* that entry's pattern
NamesPattern(item, k) ==
  /\ item.kind = "command"
  /\ item.nameOk /\ item.argsOk
  /\ item.name = _PARAMETERIZED[k].name
  /\ {item.args[j].name : j \in 1..Len(item.args)} = Range(_PARAMETERIZED[k].groups)

\* the action carries the values the item supplied, group by group
CarriesArgs(a, item) ==
  \A j \in 1..Len(item.args) :
    /\ Kw(a.handler.args, item.args[j].name).matched
    /\ Strip(Kw(a.handler.args, item.args[j].name).val) = item.args[j].val

\* C22: a remote command item whose name is the registered name of a
\* parameterized entry and whose args are that pattern's named groups
\* resolves to the action of that same entry with the supplied argument
\* values, as if the phrase had been spoken.
C22_RemoteKeepsIdentity ==
  (pc = "done" /\ via = "_slm_path") =>
    \A i \in 1..Len(KeptItems) : \A k \in 1..Len(_PARAMETERIZED) :
      NamesPattern(KeptItems[i], k) =>
        /\ Result.actions[i].name = _PARAMETERIZED[k].name
        /\ Result.actions[i].handler.fn = _PARAMETERIZED[k].fn
        /\ CarriesArgs(Result.actions[i], KeptItems[i])

\* ------------------------------------------------------------------------
\* Smart spacing in the typed field (SpecTyping)
\* ------------------------------------------------------------------------

\* the result match_dictation_mode gave for the utterance just dispatched
Dictated(t) == match_dictation_mode(t)

\* a punctuation phrase spoken on its own / after dictated words
StandalonePunct(t) == Dictated(t).handler.fn = "_type_punctuation"

TrailingPunct(t) == Dictated(t).handler.fn = "_type_dictation_then_punct"

IsOpening(t) == Dictated(t).handler.char \in {<<"(">>, <<"[">>, <<"{">>}

\* the utterance has been dispatched and its handler has returned
Typing(t) == pc = "listen" /\ utterance = t /\ t # <<>>

\* the strokes that put text into the field, one per character
Strokes(text) == type_text(text)

\* every character of text has a stroke
Typable(text) == Len(Strokes(text)) = Len(text)

\* the strokes of the field with one trailing space removed when it has one,
\* unchanged otherwise
WithoutOneSpace(text) ==
  IF text # <<>> /\ <<text[Len(text)]>> = Strokes(<<" ">>)
  THEN SubSeq(text, 1, Len(text) - 1) ELSE text

\* C23: a standalone closing/normal punctuation action removes exactly one
\* trailing space of the typed text and never a non-space character, then
\* appends the punctuation character followed by exactly one space.
C23_ClosingPunctSpacing ==
  (Typing(utterance) /\ StandalonePunct(utterance) /\ ~IsOpening(utterance))
    => /\ Typable(Dictated(utterance).handler.char)
       /\ field = WithoutOneSpace(field_before)
                   \o Strokes(Dictated(utterance).handler.char \o <<" ">>)

\* C24: an opening bracket, spoken on its own or after dictated words, keeps
\* the space before it (it is separated from the words dictated with it by a
\* space) and gets no space after it.
C24_OpeningBracketSpacing ==
  (/\ Typing(utterance)
   /\ StandalonePunct(utterance) \/ TrailingPunct(utterance)
   /\ IsOpening(utterance))
    => /\ Typable(Dictated(utterance).handler.char)
       /\ field = field_before
                   \o Strokes(IF TrailingPunct(utterance)
                              THEN Dictated(utterance).handler.text \o <<" ">> ELSE <<>>)
                   \o Strokes(Dictated(utterance).handler.char)

\* ------------------------------------------------------------------------
\* Formatter selection (SpecText)
\* ------------------------------------------------------------------------

FormatterKeys == {FORMATTERS[i].name : i \in 1..Len(FORMATTERS)}

TransformOf(k) == (CHOOSE i \in 1..Len(FORMATTERS) : FORMATTERS[i].name = k)

\* the words of s after the key k
WordsAfter(s, k) == Strip(Drop(s, Len(k) + 1))

\* the keys s starts with, each followed by a space and one more word at least
KeysWithRemainder(s) ==
  {k \in FormatterKeys : StartsWith(s, k \o <<" ">>) /\ SplitWords(WordsAfter(s, k)) # <<>>}

LongestKey(s) ==
  CHOOSE k \in KeysWithRemainder(s) : \A j \in KeysWithRemainder(s) : Len(j) <= Len(k)

\* try_format matches with the longest key followed by a space and a word,
\* and applies that key's transform to the words after it
LongestKeyFormats ==
  via = "try_format" =>
    IF KeysWithRemainder(Handed) = {} THEN outcome = <<>>
    ELSE outcome = <<[text |-> ApplyFormatter(FORMATTERS[TransformOf(LongestKey(Handed))].fn,
                                              WordsAfter(Handed, LongestKey(Handed))),
                      name |-> LongestKey(Handed)]>>

\* C25: try_format matches with the longest formatter key followed by a
\* space and at least one more word and applies that key's transform to
\* exactly the words after it, and an utterance that is only a formatter
\* key matches no formatter.
C25_Original ==
  /\ LongestKeyFormats
  /\ (via = "try_format" /\ Handed \in FormatterKeys) => outcome = <<>>

\* the formatter key of a formatter result, whose name is "format:<key>"
KeyOfResult(name) == Drop(name, Len(<<"f","o","r","m","a","t",":">>) + 1)

\* the characters of the raw transcript t after the key k
RawAfter(t, k) == WordsAfter(Strip(t), k)

\* what k's transform makes of the raw words after k
FormattedRaw(t, k) == ApplyFormatter(FORMATTERS[TransformOf(k)].fn, RawAfter(t, k))

\* C26: for every transcript resolved by the formatter tier, by match or by
\* the fast path, the text handed to the transform is the raw transcript's
\* words after the formatter key, original casing and characters kept.
C26_TransformGetsRawRemainder ==
  /\ (via = "match" /\ outcome[1].kind = "formatter")
       => outcome[1].handler.text = FormattedRaw(utterance, KeyOfResult(outcome[1].name))
  /\ (via = "_fast_path" /\ outcome # <<>> /\ Len(outcome[1].actions) = 1
        /\ outcome[1].actions[1].kind = "format")
       => outcome[1].actions[1].text
            = FormattedRaw(utterance, KeyOfResult(outcome[1].actions[1].name))

\* ------------------------------------------------------------------------
\* Resolution and execution (SpecResolve)
\* ------------------------------------------------------------------------

\* the state the handlers act on: scratch counter, engine mode, keys posted
Effects == <<_last_typed_len, mode, posted>>

\* parse is under way: fast path, remote path or fallback
Resolving == pc \in {"fast", "escalate", "fallback"}

\* C27: resolution has no side effects.  While parse runs no key is posted
\* and neither the scratch counter nor the engine mode changes; they change
\* only when execute_actions runs the handlers of the result parse returned,
\* so all the actions of an utterance are resolved against one state.
C27_ResolutionHasNoEffects ==
  [][/\ Resolving => Effects' = Effects
     /\ Effects' # Effects
          => (pc \in {"done", "running"} /\ outcome # <<>> /\ outcome' = outcome)]_vars

\* an utterance of two actions was resolved, and its handlers have now run
\* and typed
C27_Witness ==
  /\ pc = "listen"
  /\ outcome # <<>>
  /\ Len(outcome[1].actions) = 2
  /\ posted # <<>>
  /\ _last_typed_len > 0

\* ------------------------------------------------------------------------
\* The raw prefix of trailing punctuation (SpecText)
\* ------------------------------------------------------------------------

\* the words spoken before the punctuation phrase of a dictated transcript t
SpokenBefore(t) == _match_trailing_punctuation(_normalize(t))[1].before

\* C28: when a dictation-mode transcript normalizes to words followed by a
\* punctuation phrase, the raw prefix that is typed holds the raw tokens of
\* all those words and none of the punctuation phrase: normalized, it is
\* the words before the phrase.
C28_RawPrefixIsSpokenWords ==
  (via = "match_dictation_mode" /\ outcome[1].handler.fn = "_type_dictation_then_punct")
    => SplitWords(_normalize(outcome[1].handler.text)) = SplitWords(SpokenBefore(utterance))

\* ------------------------------------------------------------------------
\* Pause (SpecEngine)
\* ------------------------------------------------------------------------

\* the step is the dispatch of a command / the feeding of a block to the VAD
Dispatches == loop = "dispatch" /\ loop' = "running"

FeedsVad == loop = "accept" /\ loop' = "has_segment"

\* C29: under every interleaving of the hotkey listener and the processing
\* loop, no command handler is dispatched and no audio block is fed to the
\* VAD while the engine state is PAUSED.
C29_PauseRespected ==
  [][(Dispatches \/ FeedsVad) => _state = "LISTENING"]_vars

\* ------------------------------------------------------------------------
\* The two rule matchers (SpecText)
\* ------------------------------------------------------------------------

\* the entries a result of match names, in order
NamedByMatch(m) == IF m.handler.fn = "run_all" THEN Names(m.subs) ELSE <<m.name>>

\* the entries a result of the fast path names, in order
NamedByFastPath(r) == [i \in 1..Len(r.actions) |-> r.actions[i].name]

\* match and the fast path agree on the transcript t
Agree(m, r) ==
  /\ m.kind # "dictation" <=> r # <<>>
  /\ r # <<>> =>
       /\ NamedByMatch(m) = NamedByFastPath(r[1])
       /\ m.handler.fn = "run_all"
            => m.name = <<"m","u","l","t","i",":">> \o Join(NamedByFastPath(r[1]), <<"+">>)

\* C30: for every raw transcript, match returns a non-dictation result
\* exactly when the fast path returns a result, and then both name the same
\* registry entries in the same order: the composite name of match lists the
\* names of the fast path's actions, a single match has the name of the one
\* action.
C30_MatchersAgree ==
  /\ via = "match" => Agree(outcome[1], _fast_path(utterance))
  /\ via = "_fast_path" => Agree(match(utterance), outcome)

\* a transcript of two sentences, the first matching nothing: match names
\* one entry in a composite, the fast path returns the one action
C30_Witness ==
  /\ via = "match"
  /\ utterance = <<"h","e","l","l","o",","," ","s","a","v","e">>
  /\ outcome[1].name = <<"m","u","l","t","i",":","s","a","v","e">>
  /\ NamedByFastPath(_fast_path(utterance)[1]) = <<<<"s","a","v","e">>>>
====
